---- MODULE Spec2Model ----
(***************************************************************************)
(* The board engine of minesweeper_logic/table.rs: FieldInner,             *)
(* FieldVisiter, the neighbour geometry and BasicTable with its Table      *)
(* operations open_field, open_neighbors and toggle_flag.                  *)
(*                                                                         *)
(* Coordinates are pairs <<row, col>>, 0-based as in the source.           *)
(* A FieldType is <<"Empty", 0>>, <<"Numbered", n>> or <<"Mine", 0>>.      *)
(* A HashMap is a function over the set of its keys; a HashSet is a set.   *)
(***************************************************************************)
EXTENDS Integers, FiniteSets, Sequences, TLC

\* The boards explored have at most MaxCells fields.
MaxCells == 4

\* Coordinates are tried up to Margin fields off the board on every side.
Margin == 1

\* The values passed to update_type_with_value are 0 .. MaxValue.
MaxValue == 9

\* ------------------------------------------------------------------------
\* FieldType, FieldState, FieldInfo (field_info.rs)

Empty == <<"Empty", 0>>
Mine == <<"Mine", 0>>
Numbered(n) == <<"Numbered", n>>

is_mine(field_type) == field_type = Mine
is_numbered(field_type) == field_type[1] = "Numbered"

FieldState == {"Closed", "Opened", "Flagged"}

\* FieldInner::is_valid_value
is_valid_value(value) == value > 0 /\ value < 9

\* FieldInner::new_with_field_type: a new field is Closed.
new_with_field_type(field_type) == [state |-> "Closed", field_type |-> field_type]

\* FieldInner::update_type_to_mine / _to_empty / _with_value: Err (ok = FALSE,
\* field untouched) on an Opened field, and for a value outside 1..8.
\* update_type_to_mine without the test for an Opened field.
update_type_to_mine_unchecked(f) ==
    [ok |-> TRUE, field |-> [f EXCEPT !.field_type = Mine]]

update_type_to_mine(f) ==
    IF f.state = "Opened"
    THEN [ok |-> FALSE, field |-> f]
    ELSE [ok |-> TRUE, field |-> [f EXCEPT !.field_type = Mine]]

update_type_to_empty(f) ==
    IF f.state = "Opened"
    THEN [ok |-> FALSE, field |-> f]
    ELSE [ok |-> TRUE, field |-> [f EXCEPT !.field_type = Empty]]

update_type_with_value(f, value) ==
    IF f.state = "Opened" THEN [ok |-> FALSE, field |-> f]
    ELSE IF ~is_valid_value(value) THEN [ok |-> FALSE, field |-> f]
    ELSE [ok |-> TRUE, field |-> [f EXCEPT !.field_type = Numbered(value)]]

\* get_open_result_inner with the Mine arm giving SimpleOpen.
get_open_result_inner_no_boom(f) ==
    IF f.field_type = Empty THEN "MultiOpen" ELSE "SimpleOpen"

\* FieldInner::get_open_result_inner
get_open_result_inner(f) ==
    IF f.field_type = Empty THEN "MultiOpen"
    ELSE IF is_numbered(f.field_type) THEN "SimpleOpen"
    ELSE "Boom"

\* FieldInner::open reporting an Opened field like a Closed one.
FieldOpen_reports_opened(f) ==
    IF f.state = "Flagged" THEN [field |-> f, result |-> "IsFlagged"]
    ELSE [field |-> [f EXCEPT !.state = "Opened"],
          result |-> IF f.state = "Opened" /\ f.field_type = Empty
                     THEN "SimpleOpen" ELSE get_open_result_inner(f)]

\* FieldInner::open without its AlreadyOpened branch: an Opened field is
\* opened again.
FieldOpen_reopens(f) ==
    IF f.state = "Flagged" THEN [field |-> f, result |-> "IsFlagged"]
    ELSE [field |-> [f EXCEPT !.state = "Opened"],
          result |-> get_open_result_inner(f)]

\* FieldInner::open taking a Flagged field for a Closed one.
FieldOpen_opens_flagged(f) ==
    IF f.state = "Opened" THEN [field |-> f, result |-> "AlreadyOpened"]
    ELSE [field |-> [f EXCEPT !.state = "Opened"],
          result |-> get_open_result_inner(f)]

\* FieldInner::open: the field after the call and the FieldOpenResult.
FieldOpen(f) ==
    IF f.state = "Flagged" THEN [field |-> f, result |-> "IsFlagged"]
    ELSE IF f.state = "Opened" THEN [field |-> f, result |-> "AlreadyOpened"]
    ELSE [field |-> [f EXCEPT !.state = "Opened"],
          result |-> get_open_result_inner(f)]

\* get_public_field_info handing out the type of an unopened field.
get_public_field_info_leaks(f) == f

\* FieldInner::get_public_field_info: the FieldInfo shown to the caller.
get_public_field_info(f) ==
    IF f.state = "Opened" THEN f
    ELSE [state |-> f.state, field_type |-> Empty]

\* FieldInner::toggle_flag without the check for an Opened field.
FieldToggleFlag_any(f) ==
    IF f.state = "Flagged"
    THEN [field |-> [f EXCEPT !.state = "Closed"], result |-> "FlagRemoved"]
    ELSE [field |-> [f EXCEPT !.state = "Flagged"], result |-> "Flagged"]

\* FieldInner::toggle_flag that reports FlagRemoved and keeps the flag.
FieldToggleFlag_sticky(f) ==
    IF f.state = "Flagged"
    THEN [field |-> f, result |-> "FlagRemoved"]
    ELSE IF f.state # "Opened"
    THEN [field |-> [f EXCEPT !.state = "Flagged"], result |-> "Flagged"]
    ELSE [field |-> f, result |-> "AlreadyOpened"]

\* FieldInner::toggle_flag
FieldToggleFlag(f) ==
    IF f.state = "Flagged"
    THEN [field |-> [f EXCEPT !.state = "Closed"], result |-> "FlagRemoved"]
    ELSE IF f.state # "Opened"
    THEN [field |-> [f EXCEPT !.state = "Flagged"], result |-> "Flagged"]
    ELSE [field |-> f, result |-> "AlreadyOpened"]

\* ------------------------------------------------------------------------
\* Neighbour geometry

NEIGHBOR_OFFSETS ==
    {<<-1, -1>>, <<0, -1>>, <<1, -1>>, <<-1, 0>>,
     <<1, 0>>, <<-1, 1>>, <<0, 1>>, <<1, 1>>}

Coords(h, w) == (0 .. h - 1) \X (0 .. w - 1)

\* get_neighbor_fields wrapping around the edges of the board.
get_neighbor_fields_wrapping(h, w, row, col) ==
    {<<(row + o[1]) % h, (col + o[2]) % w>> : o \in NEIGHBOR_OFFSETS}

get_neighbor_fields(h, w, row, col) ==
    {<<row + o[1], col + o[2]>> : o \in
        {o \in NEIGHBOR_OFFSETS :
            /\ row + o[1] >= 0 /\ row + o[1] < h
            /\ col + o[2] >= 0 /\ col + o[2] < w}}

\* get_field_value whose counter is never incremented.
get_field_value_uncounted(h, w, row, col, mines) ==
    IF <<row, col>> \in mines
    THEN [ok |-> FALSE, value |-> 0]
    ELSE [ok |-> TRUE, value |-> 0]

\* get_field_value: Err for a mine, else the number of neighbours that are
\* in mine_locations.
get_field_value(h, w, row, col, mines) ==
    IF <<row, col>> \in mines
    THEN [ok |-> FALSE, value |-> 0]
    ELSE [ok |-> TRUE,
          value |-> Cardinality(get_neighbor_fields(h, w, row, col) \cap mines)]

\* generate_fields: every field Closed, typed from the mine set.
generate_fields(h, w, mines) ==
    [p \in Coords(h, w) |->
        IF p \in mines THEN new_with_field_type(Mine)
        ELSE IF get_field_value(h, w, p[1], p[2], mines).value = 0
             THEN new_with_field_type(Empty)
             ELSE new_with_field_type(
                    Numbered(get_field_value(h, w, p[1], p[2], mines).value))]

\* check_sizes, for dimensions far below SizeType::MAX: "Ok", or the error.
check_sizes(h, w, number_of_mines) ==
    IF w * h - 1 < number_of_mines THEN "TooMuchMines"
    ELSE IF 1 > number_of_mines THEN "TooFewMines"
    ELSE "Ok"

\* ------------------------------------------------------------------------
\* FieldVisiter.  fields_to_visit is an IndexSet: insertion-ordered, pop()
\* removes the last entry.  extend() receives a HashSet, whose iteration
\* order is arbitrary, so the entries of one extend() call sit in an
\* arbitrary order among themselves.  fields_to_visit is therefore kept as
\* the sequence of the batches inserted (sets, oldest first); pop() takes any
\* member of the last batch.

\* FieldVisiter::new: no check of row and col, the result is always Ok.
FieldVisiter_new(h, w, row, col) ==
    [height |-> h, width |-> w,
     fields_to_visit |-> << {<<row, col>>} >>,
     visited_fields |-> {}]

PendingFields(v) ==
    UNION {v.fields_to_visit[i] : i \in 1 .. Len(v.fields_to_visit)}

\* extend_with_unvisited_neighbors with intersection in place of difference:
\* it adds the neighbours that were visited already.
extend_with_visited_neighbors(v, row, col) ==
    LET fields_to_extend ==
            get_neighbor_fields(v.height, v.width, row, col) \cap v.visited_fields
        fresh == fields_to_extend \ PendingFields(v)
    IN  IF fresh = {} THEN v
        ELSE [v EXCEPT !.fields_to_visit = Append(@, fresh)]

\* extend_with_unvisited_neighbors without the difference: every neighbour
\* that is not in the work list is appended.
extend_with_all_neighbors(v, row, col) ==
    LET fresh == get_neighbor_fields(v.height, v.width, row, col)
                    \ PendingFields(v)
    IN  IF fresh = {} THEN v
        ELSE [v EXCEPT !.fields_to_visit = Append(@, fresh)]

\* extend_with_unvisited_neighbors that replaces the work list by the
\* unvisited neighbours in place of extending it.
replace_with_unvisited_neighbors(v, row, col) ==
    LET fields_to_extend ==
            get_neighbor_fields(v.height, v.width, row, col) \ v.visited_fields
    IN  [v EXCEPT !.fields_to_visit =
            IF fields_to_extend = {} THEN << >> ELSE << fields_to_extend >>]

\* FieldVisiter::extend_with_unvisited_neighbors: IndexSet::extend keeps the
\* place of an entry that is already present.
extend_with_unvisited_neighbors(v, row, col) ==
    LET fields_to_extend ==
            get_neighbor_fields(v.height, v.width, row, col) \ v.visited_fields
        fresh == fields_to_extend \ PendingFields(v)
    IN  IF fresh = {} THEN v
        ELSE [v EXCEPT !.fields_to_visit = Append(@, fresh)]

\* The coordinates FieldVisiter::next may return (none when the work list is
\* empty).
NextChoices(v) ==
    IF v.fields_to_visit = <<>> THEN {}
    ELSE v.fields_to_visit[Len(v.fields_to_visit)]

\* FieldVisiter::next returning p: p leaves the work list and becomes visited.
VisiterPop(v, p) ==
    LET n == Len(v.fields_to_visit)
        rest == v.fields_to_visit[n] \ {p}
    IN  [v EXCEPT
            !.fields_to_visit =
                IF rest = {} THEN SubSeq(@, 1, n - 1) ELSE [@ EXCEPT ![n] = rest],
            !.visited_fields = @ \cup {p}]

\* ------------------------------------------------------------------------
\* BasicTable.  A table is a record
\*   [height, width, mine_locations, number_of_opened_fields, fields].

\* BasicTable::with_custom_mines, for a mine set that passes its checks.
with_custom_mines(h, w, mines) ==
    [height |-> h, width |-> w, mine_locations |-> mines,
     number_of_opened_fields |-> 0,
     fields |-> generate_fields(h, w, mines)]

\* all_fields_are_open that leaves the mines out of the sum.
all_fields_are_open_without_mines(t) ==
    t.width * t.height = t.number_of_opened_fields

\* all_fields_are_open off by one: true one field early.
all_fields_are_open_early(t) ==
    t.width * t.height
        <= Cardinality(t.mine_locations) + t.number_of_opened_fields + 1

\* BasicTable::all_fields_are_open
all_fields_are_open(t) ==
    t.width * t.height = Cardinality(t.mine_locations) + t.number_of_opened_fields

\* BasicTable::validate_indices
validate_indices(t, row, col) ==
    ~(row < 0 \/ row >= t.height \/ col < 0 \/ col >= t.width)

\* The search loop of move_mine never assigning new_place.
NewPlaces_default(t, v) == {<<0, 0>>}

\* The search loop of move_mine: the places the loop can leave in new_place,
\* over every order in which the visiter can hand out the coordinates.
\* new_place keeps its initial (0, 0) when the visiter runs dry.
RECURSIVE NewPlaces(_, _)
NewPlaces(t, v) ==
    IF NextChoices(v) = {} THEN {<<0, 0>>}
    ELSE UNION {
            IF ~is_mine(t.fields[p].field_type) THEN {p}
            ELSE NewPlaces(t, extend_with_unvisited_neighbors(
                                 VisiterPop(v, p), p[1], p[2]))
            : p \in NextChoices(v)}

\* The recalculation loop left out: the field keeps the type it had.
Recalculated_stale(t, p) == [ok |-> TRUE, field |-> t.fields[p]]

\* The recalculation loop of move_mine for one coordinate p.
Recalculated(t, p) ==
    LET f == t.fields[p]
        fv == get_field_value(t.height, t.width, p[1], p[2], t.mine_locations)
    IN  IF is_mine(f.field_type) THEN [ok |-> TRUE, field |-> f]
        ELSE IF ~fv.ok THEN [ok |-> FALSE, field |-> f]
        ELSE IF fv.value = 0 THEN update_type_to_empty(f)
        ELSE update_type_with_value(f, fv.value)

\* move_mine that forgets mine_locations.remove(&(row, col)).
MoveMineTo_keeps_clicked(t, row, col, new_place) ==
    LET u1 == update_type_to_mine(t.fields[new_place])
        t1 == [t EXCEPT !.fields[new_place] = u1.field,
                        !.mine_locations = @ \cup {new_place}]
    IN  [ok |-> u1.ok, table |-> t1]

\* move_mine that puts the mine on a Closed field: the flag of the new place
\* is lost.
MoveMineTo_unflags(t, row, col, new_place) ==
    LET t1 == [t EXCEPT !.fields[new_place] =
                            [state |-> "Closed", field_type |-> Mine]]
        t2 == [t1 EXCEPT !.fields[<<row, col>>].field_type = Empty,
                         !.mine_locations = (@ \ {<<row, col>>}) \cup {new_place}]
        fields_to_recalculate ==
            get_neighbor_fields(t.height, t.width, row, col)
            \cup get_neighbor_fields(t.height, t.width, new_place[1], new_place[2])
            \cup {<<row, col>>}
        t3 == [t2 EXCEPT !.fields =
                [p \in DOMAIN t2.fields |->
                    IF p \in fields_to_recalculate
                    THEN Recalculated(t2, p).field ELSE t2.fields[p]]]
    IN  [ok |-> TRUE, table |-> t3]

\* The rest of move_mine once new_place is known.  ok is FALSE when one of the
\* unwrap() calls meets an Err (the call panics).
MoveMineTo(t, row, col, new_place) ==
    LET u1 == update_type_to_mine(t.fields[new_place])
        t1 == [t EXCEPT !.fields[new_place] = u1.field]
        u2 == update_type_to_empty(t1.fields[<<row, col>>])
        t2 == [t1 EXCEPT !.fields[<<row, col>>] = u2.field,
                         !.mine_locations = (@ \ {<<row, col>>}) \cup {new_place}]
        fields_to_recalculate ==
            get_neighbor_fields(t.height, t.width, row, col)
            \cup get_neighbor_fields(t.height, t.width, new_place[1], new_place[2])
            \cup {<<row, col>>}
        t3 == [t2 EXCEPT !.fields =
                [p \in DOMAIN t2.fields |->
                    IF p \in fields_to_recalculate
                    THEN Recalculated(t2, p).field ELSE t2.fields[p]]]
    IN  [ok |-> /\ u1.ok /\ u2.ok
                /\ \A p \in fields_to_recalculate : Recalculated(t2, p).ok,
         table |-> t3]

\* move_mine that leaves the mine where it is.
move_mine_skipped(t, row, col) == {[ok |-> TRUE, table |-> t]}

\* BasicTable::move_mine: every outcome the call can have.
move_mine(t, row, col) ==
    IF is_mine(t.fields[<<row, col>>].field_type)
    THEN {MoveMineTo(t, row, col, np) :
            np \in NewPlaces(t, FieldVisiter_new(t.height, t.width, row, col))}
    ELSE {[ok |-> TRUE, table |-> t]}

\* construct_boom_result that reports the Opened fields only.
construct_boom_result_opened_only(t) ==
    [result |-> "Boom",
     newly_opened_fields |->
        [p \in {q \in Coords(t.height, t.width) : t.fields[q].state = "Opened"} |->
            t.fields[p].field_type]]

\* BasicTable::construct_boom_result
construct_boom_result(t) ==
    [result |-> "Boom",
     newly_opened_fields |-> [p \in Coords(t.height, t.width) |-> t.fields[p].field_type]]

EmptyMap == [p \in {} |-> Empty]

\* m with key p bound to x (HashMap::insert).
MapInsert(m, p, x) ==
    [q \in DOMAIN m \cup {p} |-> IF q = p THEN x ELSE m[q]]

\* The while loop of execute_open leaving at the first Boom.
RECURSIVE ExecuteOpenLoop_stops_at_boom(_, _, _, _)
ExecuteOpenLoop_stops_at_boom(t, v, newly_opened_fields, has_boomed) ==
    IF NextChoices(v) = {}
    THEN {[table |-> t, newly_opened_fields |-> newly_opened_fields,
           has_boomed |-> has_boomed]}
    ELSE UNION {
        LET v1 == VisiterPop(v, p)
            o == FieldOpen(t.fields[p])
            t1 == [t EXCEPT !.fields[p] = o.field]
            counted == [t1 EXCEPT !.number_of_opened_fields = @ + 1]
        IN  CASE o.result = "MultiOpen" ->
                    ExecuteOpenLoop_stops_at_boom(counted,
                        extend_with_unvisited_neighbors(v1, p[1], p[2]),
                        MapInsert(newly_opened_fields, p, o.field.field_type),
                        has_boomed)
              [] o.result = "SimpleOpen" ->
                    ExecuteOpenLoop_stops_at_boom(counted, v1,
                        MapInsert(newly_opened_fields, p, o.field.field_type),
                        has_boomed)
              [] o.result = "Boom" ->
                    {[table |-> t1,
                      newly_opened_fields |->
                        MapInsert(newly_opened_fields, p, o.field.field_type),
                      has_boomed |-> TRUE]}
              [] OTHER -> ExecuteOpenLoop_stops_at_boom(t1, v1,
                              newly_opened_fields, has_boomed)
        : p \in NextChoices(v)}

\* The while loop of execute_open: every (table, newly_opened_fields,
\* has_boomed) it can end with, over the orders of the visiter.
RECURSIVE ExecuteOpenLoop(_, _, _, _)
ExecuteOpenLoop(t, v, newly_opened_fields, has_boomed) ==
    IF NextChoices(v) = {}
    THEN {[table |-> t, newly_opened_fields |-> newly_opened_fields,
           has_boomed |-> has_boomed]}
    ELSE UNION {
        LET v1 == VisiterPop(v, p)
            o == FieldOpen(t.fields[p])
            t1 == [t EXCEPT !.fields[p] = o.field]
            counted == [t1 EXCEPT !.number_of_opened_fields = @ + 1]
        IN  CASE o.result = "MultiOpen" ->
                    ExecuteOpenLoop(counted,
                        extend_with_unvisited_neighbors(v1, p[1], p[2]),
                        MapInsert(newly_opened_fields, p, o.field.field_type),
                        has_boomed)
              [] o.result = "SimpleOpen" ->
                    ExecuteOpenLoop(counted, v1,
                        MapInsert(newly_opened_fields, p, o.field.field_type),
                        has_boomed)
              [] o.result = "Boom" ->
                    ExecuteOpenLoop(t1, v1,
                        MapInsert(newly_opened_fields, p, o.field.field_type),
                        TRUE)
              [] OTHER -> ExecuteOpenLoop(t1, v1, newly_opened_fields, has_boomed)
        : p \in NextChoices(v)}

\* The result of execute_open with the mine coordinates added before the win
\* is checked: an Ok result carries them too.
ExecuteOpenResult_mines_always(l) ==
    LET with_mines ==
            [p \in DOMAIN l.newly_opened_fields \cup l.table.mine_locations |->
                IF p \in l.table.mine_locations THEN Mine
                ELSE l.newly_opened_fields[p]]
    IN  IF l.has_boomed THEN construct_boom_result(l.table)
        ELSE IF all_fields_are_open(l.table)
        THEN [result |-> "WINNER", newly_opened_fields |-> with_mines]
        ELSE [result |-> "Ok", newly_opened_fields |-> with_mines]

\* The result of execute_open without the loop over mine_locations.
ExecuteOpenResult_no_mines(l) ==
    IF l.has_boomed THEN construct_boom_result(l.table)
    ELSE IF all_fields_are_open(l.table)
    THEN [result |-> "WINNER", newly_opened_fields |-> l.newly_opened_fields]
    ELSE [result |-> "Ok", newly_opened_fields |-> l.newly_opened_fields]

\* What execute_open returns after the loop.
ExecuteOpenResult(l) ==
    IF l.has_boomed THEN construct_boom_result(l.table)
    ELSE IF all_fields_are_open(l.table)
    THEN [result |-> "WINNER",
          newly_opened_fields |->
            [p \in DOMAIN l.newly_opened_fields \cup l.table.mine_locations |->
                IF p \in l.table.mine_locations THEN Mine
                ELSE l.newly_opened_fields[p]]]
    ELSE [result |-> "Ok", newly_opened_fields |-> l.newly_opened_fields]

\* BasicTable::execute_open: the (table, OpenInfo) pairs the call can end with.
execute_open(t, v) ==
    {[table |-> l.table, info |-> ExecuteOpenResult(l)] :
        l \in ExecuteOpenLoop(t, v, EmptyMap, FALSE)}

\* count_flagged_neighbors counting every neighbour that is not Closed.
count_not_closed_neighbors(t, row, col) ==
    Cardinality({p \in get_neighbor_fields(t.height, t.width, row, col) :
        t.fields[p].state # "Closed"})

\* BasicTable::count_flagged_neighbors.  The loop visits the field and its
\* neighbours once each, skips the field itself and counts the Flagged ones;
\* the count does not depend on the order of the visits.
count_flagged_neighbors(t, row, col) ==
    LET v == extend_with_unvisited_neighbors(
                FieldVisiter_new(t.height, t.width, row, col), row, col)
    IN  Cardinality({p \in PendingFields(v) :
            /\ p # <<row, col>>
            /\ t.fields[p].state = "Flagged"})

ErrInfo(e) == [result |-> e, newly_opened_fields |-> EmptyMap]

\* open_field that relocates a clicked mine whatever the counter says.
open_field_always_moves(t, row, col) ==
    IF ~validate_indices(t, row, col)
    THEN {[table |-> t, info |-> ErrInfo("InvalidIndex")]}
    ELSE IF t.fields[<<row, col>>].state = "Flagged"
    THEN {[table |-> t, info |-> ErrInfo("IsFlagged")]}
    ELSE UNION {
            IF ~m.ok THEN {[table |-> m.table, info |-> ErrInfo("Panic")]}
            ELSE execute_open(m.table,
                              FieldVisiter_new(t.height, t.width, row, col))
            : m \in IF /\ is_mine(t.fields[<<row, col>>].field_type)
                       /\ t.fields[<<row, col>>].state = "Closed"
                       /\ Cardinality(t.mine_locations) < t.height * t.width - 1
                    THEN move_mine(t, row, col)
                    ELSE {[ok |-> TRUE, table |-> t]}}

\* open_field that relocates the mine before it looks at the flag.
open_field_moves_first(t, row, col) ==
    IF ~validate_indices(t, row, col)
    THEN {[table |-> t, info |-> ErrInfo("InvalidIndex")]}
    ELSE UNION {
            IF ~m.ok THEN {[table |-> m.table, info |-> ErrInfo("Panic")]}
            ELSE IF m.table.fields[<<row, col>>].state = "Flagged"
            THEN {[table |-> m.table, info |-> ErrInfo("IsFlagged")]}
            ELSE execute_open(m.table,
                              FieldVisiter_new(t.height, t.width, row, col))
            : m \in IF /\ t.number_of_opened_fields = 0
                       /\ is_mine(t.fields[<<row, col>>].field_type)
                    THEN move_mine(t, row, col)
                    ELSE {[ok |-> TRUE, table |-> t]}}

\* Table::open_field
open_field(t, row, col) ==
    IF ~validate_indices(t, row, col)
    THEN {[table |-> t, info |-> ErrInfo("InvalidIndex")]}
    ELSE IF t.fields[<<row, col>>].state = "Flagged"
    THEN {[table |-> t, info |-> ErrInfo("IsFlagged")]}
    ELSE UNION {
            IF ~m.ok THEN {[table |-> m.table, info |-> ErrInfo("Panic")]}
            ELSE execute_open(m.table,
                              FieldVisiter_new(t.height, t.width, row, col))
            : m \in IF /\ t.number_of_opened_fields = 0
                       /\ is_mine(t.fields[<<row, col>>].field_type)
                    THEN move_mine(t, row, col)
                    ELSE {[ok |-> TRUE, table |-> t]}}

\* Table::open_neighbors
open_neighbors(t, row, col) ==
    IF ~validate_indices(t, row, col)
    THEN {[table |-> t, info |-> ErrInfo("InvalidIndex")]}
    ELSE IF t.fields[<<row, col>>].state # "Opened"
    THEN {[table |-> t, info |-> ErrInfo("Ok")]}
    ELSE IF /\ is_numbered(t.fields[<<row, col>>].field_type)
            /\ t.fields[<<row, col>>].field_type[2]
                    = count_flagged_neighbors(t, row, col)
    THEN execute_open(t,
            extend_with_unvisited_neighbors(
                FieldVisiter_new(t.height, t.width, row, col), row, col))
    ELSE {[table |-> t, info |-> ErrInfo("Ok")]}

\* Table::toggle_flag
toggle_flag(t, row, col) ==
    IF ~validate_indices(t, row, col)
    THEN [table |-> t, result |-> "InvalidIndex"]
    ELSE LET r == FieldToggleFlag(t.fields[<<row, col>>])
         IN  [table |-> [t EXCEPT !.fields[<<row, col>>] = r.field],
              result |-> r.result]

\* ------------------------------------------------------------------------
\* The state: one BasicTable, and the Table call in progress.  A call runs to
\* completion in one step and leaves its record (call, ret, pre) until the
\* caller drops the returned value; the next call is made after that.

VARIABLES
    height, width, mine_locations, number_of_opened_fields, fields,
    call,   \* the call just made: [op, row, col]; op = "none" between calls
    ret,    \* what it returned: [result, newly_opened_fields]
    pre,    \* the table as it was when the call was made
    state,      \* Game.state of the session that owns the table
    stopwatch   \* Game.stopwatch: how often it was started and stopped

vars == <<height, width, mine_locations, number_of_opened_fields, fields,
          call, ret, pre, state, stopwatch>>

\* enum GameState, and the stopwatch of a new Game.
NotStarted == [tag |-> "NotStarted"]
Started == [tag |-> "Started"]
Stopped(win) == [tag |-> "Stopped", win |-> win]
NewStopwatch == [start |-> 0, stop |-> 0]

Table ==
    [height |-> height, width |-> width, mine_locations |-> mine_locations,
     number_of_opened_fields |-> number_of_opened_fields, fields |-> fields]

SetTable(t) ==
    /\ height' = t.height
    /\ width' = t.width
    /\ mine_locations' = t.mine_locations
    /\ number_of_opened_fields' = t.number_of_opened_fields
    /\ fields' = t.fields

NoCall == [op |-> "none", row |-> 0, col |-> 0]
NoRet == [result |-> "none", newly_opened_fields |-> EmptyMap]

\* The board shapes explored: at most MaxCells fields.
Shapes == {s \in (1 .. MaxCells) \X (1 .. MaxCells) : s[1] * s[2] <= MaxCells}

\* A board as BasicTable::new or with_custom_mines builds it: any mine set
\* that check_sizes accepts.
Init ==
    \E s \in Shapes :
        \E mines \in SUBSET Coords(s[1], s[2]) :
            /\ check_sizes(s[1], s[2], Cardinality(mines)) = "Ok"
            /\ height = s[1] /\ width = s[2] /\ mine_locations = mines
            /\ number_of_opened_fields = 0
            /\ fields = generate_fields(s[1], s[2], mines)
            /\ call = NoCall
            /\ ret = NoRet
            /\ pre = with_custom_mines(s[1], s[2], mines)
            /\ state = NotStarted
            /\ stopwatch = NewStopwatch

Rows == 0 .. height - 1
Cols == 0 .. width - 1

OpenField ==
    /\ call = NoCall
    /\ \E row \in Rows, col \in Cols :
        \E out \in open_field(Table, row, col) :
            /\ SetTable(out.table)
            /\ call' = [op |-> "open_field", row |-> row, col |-> col]
            /\ ret' = out.info
            /\ pre' = Table
    /\ UNCHANGED <<state, stopwatch>>

OpenNeighbors ==
    /\ call = NoCall
    /\ \E row \in Rows, col \in Cols :
        \E out \in open_neighbors(Table, row, col) :
            /\ SetTable(out.table)
            /\ call' = [op |-> "open_neighbors", row |-> row, col |-> col]
            /\ ret' = out.info
            /\ pre' = Table
    /\ UNCHANGED <<state, stopwatch>>

ToggleFlag ==
    /\ call = NoCall
    /\ \E row \in Rows, col \in Cols :
        LET out == toggle_flag(Table, row, col)
        IN  /\ SetTable(out.table)
            /\ call' = [op |-> "toggle_flag", row |-> row, col |-> col]
            /\ ret' = [result |-> out.result, newly_opened_fields |-> EmptyMap]
            /\ pre' = Table
    /\ UNCHANGED <<state, stopwatch>>

\* The caller is done with the returned value; the table is ready for the
\* next call.
DropResult ==
    /\ call # NoCall
    /\ call' = NoCall
    /\ ret' = NoRet
    /\ pre' = Table
    /\ UNCHANGED <<height, width, mine_locations, number_of_opened_fields, fields>>
    /\ UNCHANGED <<state, stopwatch>>

Next ==
    \/ OpenField
    \/ OpenNeighbors
    \/ ToggleFlag
    \/ DropResult

Spec == Init /\ [][Next]_vars

\* ------------------------------------------------------------------------
\* The same table called with coordinates on and off the board, and asked
\* for its FieldInfo.

\* get_field_info moving a coordinate off the board to the nearest field.
get_field_info_clamped(t, row, col) ==
    LET r == IF row < 0 THEN 0 ELSE IF row >= t.height THEN t.height - 1 ELSE row
        c == IF col < 0 THEN 0 ELSE IF col >= t.width THEN t.width - 1 ELSE col
    IN  [result |-> "Ok",
         field_info |-> get_public_field_info(t.fields[<<r, c>>])]

\* BasicTable::get_field_info: Err(InvalidIndex) or Ok(FieldInfo).
get_field_info(t, row, col) ==
    IF ~validate_indices(t, row, col)
    THEN [result |-> "InvalidIndex"]
    ELSE [result |-> "Ok",
          field_info |-> get_public_field_info(t.fields[<<row, col>>])]

AnyRows == (0 - Margin) .. (height - 1 + Margin)
AnyCols == (0 - Margin) .. (width - 1 + Margin)

OpenFieldAt ==
    /\ call = NoCall
    /\ \E row \in AnyRows, col \in AnyCols :
        \E out \in open_field(Table, row, col) :
            /\ SetTable(out.table)
            /\ call' = [op |-> "open_field", row |-> row, col |-> col]
            /\ ret' = out.info
            /\ pre' = Table
    /\ UNCHANGED <<state, stopwatch>>

OpenNeighborsAt ==
    /\ call = NoCall
    /\ \E row \in AnyRows, col \in AnyCols :
        \E out \in open_neighbors(Table, row, col) :
            /\ SetTable(out.table)
            /\ call' = [op |-> "open_neighbors", row |-> row, col |-> col]
            /\ ret' = out.info
            /\ pre' = Table
    /\ UNCHANGED <<state, stopwatch>>

ToggleFlagAt ==
    /\ call = NoCall
    /\ \E row \in AnyRows, col \in AnyCols :
        LET out == toggle_flag(Table, row, col)
        IN  /\ SetTable(out.table)
            /\ call' = [op |-> "toggle_flag", row |-> row, col |-> col]
            /\ ret' = [result |-> out.result, newly_opened_fields |-> EmptyMap]
            /\ pre' = Table
    /\ UNCHANGED <<state, stopwatch>>

GetFieldInfo ==
    /\ call = NoCall
    /\ \E row \in AnyRows, col \in AnyCols :
        /\ call' = [op |-> "get_field_info", row |-> row, col |-> col]
        /\ ret' = get_field_info(Table, row, col)
        /\ pre' = Table
        /\ UNCHANGED <<height, width, mine_locations, number_of_opened_fields,
                       fields>>
    /\ UNCHANGED <<state, stopwatch>>

NextAnyIndex ==
    \/ OpenFieldAt
    \/ OpenNeighborsAt
    \/ ToggleFlagAt
    \/ GetFieldInfo
    \/ DropResult

SpecAnyIndex == Init /\ [][NextAnyIndex]_vars

\* ------------------------------------------------------------------------
\* BasicTable::new(height, width, number_of_mines), step by step: the loop of
\* generate_mine_locations, then with_custom_mines.  mine_locations is the
\* set the loop fills; ret stays NoRet until new returns or panics.

\* SizeType is i64.
SizeTypeBits == 64

RECURSIVE PowMod(_, _, _)
PowMod(b, e, n) == IF e = 0 THEN 1 % n ELSE (b * PowMod(b, e - 1, n)) % n

\* rand::random::<SizeType>().abs() % n for n > 0: 0 .. n-1 for every value
\* but SizeType::MIN, whose abs() wraps to SizeType::MIN in a build without
\* overflow checks; % keeps the sign of the dividend.
RandomAbsMod(n) == (0 .. n - 1) \cup {0 - PowMod(2, SizeTypeBits - 1, n)}

\* The mine counts new is called with.
Counts == (0 - Margin) .. (MaxCells + Margin)

InitNew ==
    \E s \in Shapes, count \in Counts :
        /\ height = s[1] /\ width = s[2]
        /\ mine_locations = {}
        /\ number_of_opened_fields = 0
        /\ fields = EmptyMap
        /\ call = [op |-> "new", number_of_mines |-> count]
        /\ ret = NoRet
        /\ pre = [height |-> s[1], width |-> s[2], mine_locations |-> {},
                  number_of_opened_fields |-> 0, fields |-> EmptyMap]
        /\ state = NotStarted
        /\ stopwatch = NewStopwatch

\* One pass of the while loop: insert a drawn coordinate.
NewInsertMine ==
    /\ call.op = "new" /\ ret = NoRet
    /\ Cardinality(mine_locations) < call.number_of_mines
    /\ \E row \in RandomAbsMod(height), col \in RandomAbsMod(width) :
        mine_locations' = mine_locations \cup {<<row, col>>}
    /\ UNCHANGED <<height, width, number_of_opened_fields, fields, call, ret,
                   pre>>
    /\ UNCHANGED <<state, stopwatch>>

\* One pass of the while loop in a build with overflow checks, the draw
\* being SizeType::MIN: abs() panics.
NewAbsOverflow ==
    /\ call.op = "new" /\ ret = NoRet
    /\ Cardinality(mine_locations) < call.number_of_mines
    /\ ret' = ErrInfo("Panic")
    /\ UNCHANGED <<height, width, mine_locations, number_of_opened_fields,
                   fields, call, pre>>
    /\ UNCHANGED <<state, stopwatch>>

\* The loop is left; with_custom_mines checks the set and builds the table.
NewFinish ==
    /\ call.op = "new" /\ ret = NoRet
    /\ ~(Cardinality(mine_locations) < call.number_of_mines)
    /\ LET sizes == check_sizes(height, width, Cardinality(mine_locations))
       IN  IF sizes # "Ok"
           THEN /\ ret' = ErrInfo(sizes)
                /\ UNCHANGED fields
           ELSE IF \E m \in mine_locations : m[1] >= height \/ m[2] >= width
           THEN /\ ret' = ErrInfo("InvalidMineLocations")
                /\ UNCHANGED fields
           ELSE /\ ret' = ErrInfo("Ok")
                /\ fields' = with_custom_mines(height, width, mine_locations).fields
    /\ UNCHANGED <<height, width, mine_locations, number_of_opened_fields,
                   call, pre>>
    /\ UNCHANGED <<state, stopwatch>>

NextNew ==
    \/ NewInsertMine
    \/ NewAbsOverflow
    \/ NewFinish

SpecNew == InitNew /\ [][NextNew]_vars

\* ------------------------------------------------------------------------
\* BasicTable::with_custom_mines(height, width, mine_locations) with
\* dimensions up to SizeType::MAX.  A dimension is a positive SizeType, kept
\* as the digits of its value to the base 2^DigitBits, least significant
\* first, the last digit not 0 (zero is the empty sequence); the product of
\* two digits stays below 2^31.

DigitBits == 15
DigitBase == 2 ^ DigitBits

RECURSIVE NatDigits(_)
NatDigits(n) ==
    IF n = 0 THEN <<>> ELSE <<n % DigitBase>> \o NatDigits(n \div DigitBase)

RECURSIVE DigitsNat(_)
DigitsNat(a) == IF a = <<>> THEN 0 ELSE Head(a) + DigitBase * DigitsNat(Tail(a))

RECURSIVE DigitsAdd(_, _, _)
DigitsAdd(a, b, carry) ==
    IF a = <<>> /\ b = <<>>
    THEN IF carry = 0 THEN <<>> ELSE <<carry>>
    ELSE LET x == IF a = <<>> THEN 0 ELSE Head(a)
             y == IF b = <<>> THEN 0 ELSE Head(b)
             s == x + y + carry
         IN  <<s % DigitBase>>
                \o DigitsAdd(IF a = <<>> THEN a ELSE Tail(a),
                             IF b = <<>> THEN b ELSE Tail(b),
                             s \div DigitBase)

\* a times the digit d > 0
RECURSIVE DigitsTimesDigit(_, _, _)
DigitsTimesDigit(a, d, carry) ==
    IF a = <<>>
    THEN IF carry = 0 THEN <<>> ELSE <<carry>>
    ELSE LET p == Head(a) * d + carry
         IN  <<p % DigitBase>> \o DigitsTimesDigit(Tail(a), d, p \div DigitBase)

\* The product of two values, as wide as it gets.
RECURSIVE DigitsMul(_, _)
DigitsMul(a, b) ==
    IF a = <<>> \/ b = <<>> THEN <<>>
    ELSE LET rest == DigitsMul(Tail(a), b)
             shifted == IF rest = <<>> THEN rest ELSE <<0>> \o rest
         IN  DigitsAdd(IF Head(a) = 0 THEN <<>>
                       ELSE DigitsTimesDigit(b, Head(a), 0),
                       shifted, 0)

\* a - 1 for a > 0
RECURSIVE DigitsPred(_)
DigitsPred(a) ==
    IF Head(a) > 0
    THEN IF a = <<1>> THEN <<>> ELSE <<Head(a) - 1>> \o Tail(a)
    ELSE <<DigitBase - 1>> \o DigitsPred(Tail(a))

\* a < b
RECURSIVE DigitsLess(_, _)
DigitsLess(a, b) ==
    IF Len(a) # Len(b) THEN Len(a) < Len(b)
    ELSE IF a = <<>> THEN FALSE
    ELSE IF a[Len(a)] # b[Len(b)] THEN a[Len(a)] < b[Len(b)]
    ELSE DigitsLess(SubSeq(a, 1, Len(a) - 1), SubSeq(b, 1, Len(b) - 1))

\* 2^k
RECURSIVE Pow2Digits(_)
Pow2Digits(k) ==
    IF k < DigitBits THEN <<2 ^ k>> ELSE <<0>> \o Pow2Digits(k - DigitBits)

\* 2^k - 1
OnesDigits(k) == DigitsPred(Pow2Digits(k))

\* SizeType::MAX = 2^63 - 1
SizeTypeMAX == OnesDigits(SizeTypeBits - 1)

\* A multiplication that keeps the low digit of the product: there is
\* always a result.
checked_mul_truncating(a, b) ==
    LET product == DigitsMul(a, b)
    IN  [some |-> TRUE,
         value |-> IF Head(product) = 0 THEN <<>> ELSE <<Head(product)>>]

\* SizeType::checked_mul of two positive values: None when the product is
\* above SizeType::MAX.
checked_mul(a, b) ==
    LET product == DigitsMul(a, b)
    IN  IF DigitsLess(SizeTypeMAX, product)
        THEN [some |-> FALSE, value |-> <<>>]
        ELSE [some |-> TRUE, value |-> product]

\* check_number_of_fields
check_number_of_fields(h, w) ==
    LET numnber_of_fields == checked_mul(w, h)
    IN  IF ~numnber_of_fields.some THEN "TooMuchFields"
        ELSE IF DigitsLess(SizeTypeMAX, numnber_of_fields.value)
        THEN "TooMuchFields"
        ELSE "Ok"

\* check_sizes with dimensions of any size; width * height is computed only
\* after check_number_of_fields has passed.
check_sizes_SizeType(h, w, number_of_mines) ==
    IF check_number_of_fields(h, w) # "Ok" THEN check_number_of_fields(h, w)
    ELSE IF DigitsLess(DigitsPred(DigitsMul(w, h)), NatDigits(number_of_mines))
    THEN "TooMuchMines"
    ELSE IF 1 > number_of_mines THEN "TooFewMines"
    ELSE "Ok"

\* row >= height on SizeType, for a small row and a positive height: a
\* negative row is below every height.
NotBelow(row, h) == row >= 0 /\ ~DigitsLess(NatDigits(row), h)

\* The Result of with_custom_mines: the error, or "Ok".
with_custom_mines_result(h, w, mines) ==
    IF check_sizes_SizeType(h, w, Cardinality(mines)) # "Ok"
    THEN check_sizes_SizeType(h, w, Cardinality(mines))
    ELSE IF \E m \in mines : NotBelow(m[1], h) \/ NotBelow(m[2], w)
    THEN "InvalidMineLocations"
    ELSE "Ok"

\* The dimensions tried: the small ones, and powers of two and their
\* predecessors around the square root of SizeType::MAX and around
\* SizeType::MAX itself.
WideExponents ==
    {SizeTypeBits \div 2 - 1, SizeTypeBits \div 2,
     SizeTypeBits - 3, SizeTypeBits - 2}

SizeValues ==
    {NatDigits(n) : n \in 1 .. MaxCells}
        \cup {Pow2Digits(k) : k \in WideExponents}
        \cup {OnesDigits(k) : k \in WideExponents}
        \cup {SizeTypeMAX}

\* The board has at most MaxCells fields.
SmallBoard(h, w) ==
    /\ Len(h) = 1 /\ Len(w) = 1
    /\ Head(h) * Head(w) <= MaxCells

\* The mine sets passed for a small board: any set of its coordinates, and
\* any such set with one coordinate up to Margin off the board, on any side,
\* added.
MineSets(h, w) ==
    LET around == (-Margin .. h - 1 + Margin) \X (-Margin .. w - 1 + Margin)
    IN  {on \cup off :
            on \in SUBSET Coords(h, w),
            off \in {{}} \cup {{p} : p \in around \ Coords(h, w)}}

\* The arguments of a call: any two dimensions; a mine set on a small
\* board, and no mine on a larger one (a larger board is not built here).
InitSizes ==
    \E h \in SizeValues, w \in SizeValues :
        \E mines \in IF SmallBoard(h, w)
                     THEN MineSets(Head(h), Head(w))
                     ELSE {{}} :
            /\ call = [op |-> "with_custom_mines", height |-> h, width |-> w,
                       mine_locations |-> mines]
            /\ ret = NoRet
            /\ height = 0 /\ width = 0 /\ mine_locations = {}
            /\ number_of_opened_fields = 0
            /\ fields = EmptyMap
            /\ pre = [height |-> 0, width |-> 0, mine_locations |-> {},
                      number_of_opened_fields |-> 0, fields |-> EmptyMap]
            /\ state = NotStarted
            /\ stopwatch = NewStopwatch

\* with_custom_mines returns: an error and no table, or the table.
WithCustomMines ==
    /\ call.op = "with_custom_mines" /\ ret = NoRet
    /\ LET result == with_custom_mines_result(call.height, call.width,
                                              call.mine_locations)
       IN  /\ ret' = ErrInfo(result)
           /\ IF result = "Ok"
              THEN SetTable(with_custom_mines(DigitsNat(call.height),
                                              DigitsNat(call.width),
                                              call.mine_locations))
              ELSE UNCHANGED <<height, width, mine_locations,
                               number_of_opened_fields, fields>>
    /\ UNCHANGED <<call, pre>>
    /\ UNCHANGED <<state, stopwatch>>

NextSizes == WithCustomMines

SpecSizes == InitSizes /\ [][NextSizes]_vars

\* ------------------------------------------------------------------------
\* The same calls with their loops run one pass at a time.  While a call is
\* running, call holds its FieldVisiter, the coordinates next() has returned
\* to the running loop (returned), and the locals of execute_open; phase is
\* "search" in the loop of move_mine, "open" in the loop of execute_open
\* and "done" once the call has returned.

Running(op, row, col, phase, v) ==
    [op |-> op, row |-> row, col |-> col, phase |-> phase, visiter |-> v,
     returned |-> <<>>, newly_opened_fields |-> EmptyMap, has_boomed |-> FALSE]

\* open_field up to its first loop.
BeginOpenField ==
    /\ call = NoCall
    /\ \E row \in Rows, col \in Cols :
        LET v == FieldVisiter_new(height, width, row, col)
        IN  IF fields[<<row, col>>].state = "Flagged"
            THEN /\ call' = Running("open_field", row, col, "done", v)
                 /\ ret' = ErrInfo("IsFlagged")
            ELSE /\ call' = Running("open_field", row, col,
                        IF /\ number_of_opened_fields = 0
                           /\ is_mine(fields[<<row, col>>].field_type)
                        THEN "search" ELSE "open", v)
                 /\ ret' = NoRet
    /\ pre' = Table
    /\ UNCHANGED <<height, width, mine_locations, number_of_opened_fields,
                   fields>>
    /\ UNCHANGED <<state, stopwatch>>

\* open_neighbors up to the loop of execute_open.
BeginOpenNeighbors ==
    /\ call = NoCall
    /\ \E row \in Rows, col \in Cols :
        LET v == extend_with_unvisited_neighbors(
                    FieldVisiter_new(height, width, row, col), row, col)
            f == fields[<<row, col>>]
        IN  IF /\ f.state = "Opened"
               /\ is_numbered(f.field_type)
               /\ f.field_type[2] = count_flagged_neighbors(Table, row, col)
            THEN /\ call' = Running("open_neighbors", row, col, "open", v)
                 /\ ret' = NoRet
            ELSE /\ call' = Running("open_neighbors", row, col, "done", v)
                 /\ ret' = ErrInfo("Ok")
    /\ pre' = Table
    /\ UNCHANGED <<height, width, mine_locations, number_of_opened_fields,
                   fields>>
    /\ UNCHANGED <<state, stopwatch>>

\* move_mine from the end of its loop, new_place being np; open_field goes
\* on to execute_open with a new FieldVisiter.
MineMoved(np) ==
    LET m == MoveMineTo(Table, call.row, call.col, np)
    IN  /\ SetTable(m.table)
        /\ IF m.ok
           THEN /\ call' = Running("open_field", call.row, call.col, "open",
                        FieldVisiter_new(height, width, call.row, call.col))
                /\ ret' = NoRet
           ELSE /\ call' = [call EXCEPT !.phase = "done"]
                /\ ret' = ErrInfo("Panic")

\* One pass of the loop of move_mine, or its end when next() returns None.
SearchStep ==
    /\ call # NoCall /\ call.op = "open_field" /\ call.phase = "search"
    /\ IF NextChoices(call.visiter) = {}
       THEN MineMoved(<<0, 0>>)
       ELSE \E p \in NextChoices(call.visiter) :
            IF ~is_mine(fields[p].field_type)
            THEN MineMoved(p)
            ELSE /\ call' = [call EXCEPT
                        !.visiter = extend_with_unvisited_neighbors(
                                        VisiterPop(@, p), p[1], p[2]),
                        !.returned = Append(@, p)]
                 /\ UNCHANGED <<height, width, mine_locations,
                                number_of_opened_fields, fields, ret>>
    /\ UNCHANGED pre
    /\ UNCHANGED <<state, stopwatch>>

\* One pass of the loop of execute_open, or its end when next() returns
\* None: the call returns.
OpenStep ==
    /\ call # NoCall /\ call.op \in {"open_field", "open_neighbors"}
    /\ call.phase = "open"
    /\ IF NextChoices(call.visiter) = {}
       THEN /\ ret' = ExecuteOpenResult(
                        [table |-> Table,
                         newly_opened_fields |-> call.newly_opened_fields,
                         has_boomed |-> call.has_boomed])
            /\ call' = [call EXCEPT !.phase = "done"]
            /\ UNCHANGED <<height, width, mine_locations,
                           number_of_opened_fields, fields>>
       ELSE \E p \in NextChoices(call.visiter) :
            LET v1 == VisiterPop(call.visiter, p)
                o == FieldOpen(fields[p])
                opened == o.result \in {"MultiOpen", "SimpleOpen", "Boom"}
            IN  /\ fields' = [fields EXCEPT ![p] = o.field]
                /\ number_of_opened_fields' =
                        IF o.result \in {"MultiOpen", "SimpleOpen"}
                        THEN number_of_opened_fields + 1
                        ELSE number_of_opened_fields
                /\ call' = [call EXCEPT
                        !.visiter =
                            IF o.result = "MultiOpen"
                            THEN extend_with_unvisited_neighbors(v1, p[1], p[2])
                            ELSE v1,
                        !.returned = Append(@, p),
                        !.newly_opened_fields =
                            IF opened THEN MapInsert(@, p, o.field.field_type)
                            ELSE @,
                        !.has_boomed = @ \/ o.result = "Boom"]
                /\ ret' = NoRet
                /\ UNCHANGED <<height, width, mine_locations>>
    /\ UNCHANGED pre
    /\ UNCHANGED <<state, stopwatch>>

\* The caller drops the value a call has returned.
DropReturned == ret # NoRet /\ DropResult

NextStepwise ==
    \/ BeginOpenField
    \/ BeginOpenNeighbors
    \/ SearchStep
    \/ OpenStep
    \/ ToggleFlag
    \/ DropReturned

SpecStepwise == Init /\ [][NextStepwise]_vars

\* A running loop makes its next pass: the calls are sequential code.
SpecStepwiseFair ==
    SpecStepwise /\ WF_vars(SearchStep) /\ WF_vars(OpenStep)

\* ------------------------------------------------------------------------
\* The session wrapper: a Game owns the table, a stopwatch and a GameState,
\* and passes the player's moves on to the table.  The stopwatch is seen
\* through the calls the Game makes on it.

GAME_IS_ALREADY_STOPPED_ERROR == "GameIsAlreadyStopped"

\* The errors a Table call returns as Err (every other result is Ok(..)).
IsErr(result) == result \in {"InvalidIndex", "Panic"}

\* A start_game_if_needed that lets a stopped game go on.
start_game_if_needed_resumes(s, sw) ==
    IF s = NotStarted
    THEN [ok |-> TRUE, state |-> Started,
          stopwatch |-> [sw EXCEPT !.start = @ + 1]]
    ELSE [ok |-> TRUE, state |-> s, stopwatch |-> sw]

start_game_if_needed(s, sw) ==
    IF s = Started
    THEN [ok |-> TRUE, state |-> s, stopwatch |-> sw]
    ELSE IF s = NotStarted
    THEN [ok |-> TRUE, state |-> Started,
          stopwatch |-> [sw EXCEPT !.start = @ + 1]]
    ELSE [ok |-> FALSE, state |-> s, stopwatch |-> sw]

stop_game(sw, win) ==
    [state |-> Stopped(win), stopwatch |-> [sw EXCEPT !.stop = @ + 1]]

\* Game::execute_open around the outcomes of one table call: the outcomes of
\* the whole Game call, each with the table, the returned value and the
\* Game's fields after it.
GameExecuteOpen(outcomes) ==
    LET started == start_game_if_needed(state, stopwatch)
    IN  IF ~started.ok
        THEN {[table |-> Table,
               info |-> ErrInfo(GAME_IS_ALREADY_STOPPED_ERROR),
               state |-> state, stopwatch |-> stopwatch]}
        ELSE {LET stopped ==
                      stop_game(started.stopwatch, out.info.result = "WINNER")
              IN  IF out.info.result \in {"WINNER", "Boom"}
                  THEN [table |-> out.table, info |-> out.info,
                        state |-> stopped.state,
                        stopwatch |-> stopped.stopwatch]
                  ELSE [table |-> out.table, info |-> out.info,
                        state |-> started.state,
                        stopwatch |-> started.stopwatch]
              : out \in outcomes}

GameReturns(op, row, col, g) ==
    /\ SetTable(g.table)
    /\ call' = [op |-> op, row |-> row, col |-> col]
    /\ ret' = g.info
    /\ pre' = Table
    /\ state' = g.state
    /\ stopwatch' = g.stopwatch

GameOpen ==
    /\ call = NoCall
    /\ \E row \in AnyRows, col \in AnyCols :
        \E g \in GameExecuteOpen(open_field(Table, row, col)) :
            GameReturns("open", row, col, g)

GameOpenNeighbors ==
    /\ call = NoCall
    /\ \E row \in AnyRows, col \in AnyCols :
        \E g \in GameExecuteOpen(open_neighbors(Table, row, col)) :
            GameReturns("open_neighbors", row, col, g)

GameToggleFlag ==
    /\ call = NoCall
    /\ \E row \in AnyRows, col \in AnyCols :
        LET started == start_game_if_needed(state, stopwatch)
            out == toggle_flag(Table, row, col)
        IN  IF ~started.ok
            THEN GameReturns("toggle_flag", row, col,
                     [table |-> Table,
                      info |-> ErrInfo(GAME_IS_ALREADY_STOPPED_ERROR),
                      state |-> state, stopwatch |-> stopwatch])
            ELSE GameReturns("toggle_flag", row, col,
                     [table |-> out.table, info |-> ErrInfo(out.result),
                      state |-> started.state,
                      stopwatch |-> started.stopwatch])

NextGame ==
    \/ GameOpen
    \/ GameOpenNeighbors
    \/ GameToggleFlag
    \/ DropResult

SpecGame == Init /\ [][NextGame]_vars

\* ------------------------------------------------------------------------
\* One FieldInner on its own, as the unit tests of FieldInner use it: built
\* Closed with any type, then opened, flagged and retyped in any order.  The
\* field is held at <<0, 0>> of fields; the table variables around it do not
\* change.

FieldTypes == {Empty, Mine} \cup {Numbered(n) : n \in 1 .. 8}

TheField == fields[<<0, 0>>]

InitField ==
    \E field_type \in FieldTypes :
        /\ height = 1 /\ width = 1
        /\ mine_locations = {}
        /\ number_of_opened_fields = 0
        /\ fields = [p \in {<<0, 0>>} |-> new_with_field_type(field_type)]
        /\ call = NoCall
        /\ ret = NoRet
        /\ pre = [height |-> 1, width |-> 1, mine_locations |-> {},
                  number_of_opened_fields |-> 0,
                  fields |-> [p \in {<<0, 0>>} |-> new_with_field_type(field_type)]]
        /\ state = NotStarted
        /\ stopwatch = NewStopwatch

\* A method of FieldInner was called and left the field f, returning result.
FieldReturns(op, value, f, result) ==
    /\ call = NoCall
    /\ call' = [op |-> op, row |-> 0, col |-> 0, value |-> value]
    /\ ret' = [result |-> result, newly_opened_fields |-> EmptyMap]
    /\ pre' = Table
    /\ fields' = [fields EXCEPT ![<<0, 0>>] = f]
    /\ UNCHANGED <<height, width, mine_locations, number_of_opened_fields>>
    /\ UNCHANGED <<state, stopwatch>>

UpdateResult(u) == IF u.ok THEN "Ok" ELSE "Err"

FieldUpdateTypeToMine ==
    LET u == update_type_to_mine(TheField)
    IN  FieldReturns("update_type_to_mine", 0, u.field, UpdateResult(u))

FieldUpdateTypeToEmpty ==
    LET u == update_type_to_empty(TheField)
    IN  FieldReturns("update_type_to_empty", 0, u.field, UpdateResult(u))

FieldUpdateTypeWithValue ==
    \E value \in 0 .. MaxValue :
        LET u == update_type_with_value(TheField, value)
        IN  FieldReturns("update_type_with_value", value, u.field,
                         UpdateResult(u))

FieldOpens ==
    LET o == FieldOpen(TheField)
    IN  FieldReturns("open", 0, o.field, o.result)

FieldTogglesFlag ==
    LET r == FieldToggleFlag(TheField)
    IN  FieldReturns("toggle_flag", 0, r.field, r.result)

NextField ==
    \/ FieldUpdateTypeToMine
    \/ FieldUpdateTypeToEmpty
    \/ FieldUpdateTypeWithValue
    \/ FieldOpens
    \/ FieldTogglesFlag
    \/ DropResult

SpecField == InitField /\ [][NextField]_vars

\* ------------------------------------------------------------------------
\* get_field_value called on its own, as its unit tests call it: any small
\* board, any coordinate on it or up to Margin off it, and any mine set that
\* with_custom_mines can be handed.

InitValue ==
    \E s \in Shapes :
        \E row \in -Margin .. s[1] - 1 + Margin,
           col \in -Margin .. s[2] - 1 + Margin,
           mines \in MineSets(s[1], s[2]) :
            /\ call = [op |-> "get_field_value", row |-> row, col |-> col,
                       height |-> s[1], width |-> s[2],
                       mine_locations |-> mines]
            /\ ret = NoRet
            /\ height = 0 /\ width = 0 /\ mine_locations = {}
            /\ number_of_opened_fields = 0
            /\ fields = EmptyMap
            /\ pre = [height |-> 0, width |-> 0, mine_locations |-> {},
                      number_of_opened_fields |-> 0, fields |-> EmptyMap]
            /\ state = NotStarted
            /\ stopwatch = NewStopwatch

\* get_field_value returns Err, or Ok(field_value).
GetFieldValue ==
    /\ call.op = "get_field_value" /\ ret = NoRet
    /\ LET v == get_field_value(call.height, call.width, call.row, call.col,
                                call.mine_locations)
       IN  ret' = [result |-> IF v.ok THEN "Ok" ELSE "Err",
                   newly_opened_fields |-> EmptyMap,
                   value |-> v.value]
    /\ UNCHANGED <<height, width, mine_locations, number_of_opened_fields,
                   fields, call, pre>>
    /\ UNCHANGED <<state, stopwatch>>

NextValue == GetFieldValue

SpecValue == InitValue /\ [][NextValue]_vars

\* ------------------------------------------------------------------------
\* The C interface (cminesweeper/src/lib.rs) around a Game: the caller hands
\* in pointers to the game, to a COpenInfo with a buffer of
\* newly_opened_fields_max_length entries, and to a CErrorInfo (never null
\* here; with a null one the function panics).  Of the CErrorInfo the
\* error_code is kept, of the buffer the entries written.

\* The COpenInfo arguments tried: a null pointer, or a COpenInfo with any
\* length and capacity up to MaxCells, its buffer pointer null or not.
NullCOpenInfo ==
    [is_null |-> TRUE, newly_opened_fields_length |-> 0,
     newly_opened_fields_max_length |-> 0,
     newly_opened_fields_ptr_is_null |-> TRUE]

COpenInfos ==
    {NullCOpenInfo} \cup
    [is_null : {FALSE},
     newly_opened_fields_length : 0 .. 1,
     newly_opened_fields_max_length : 0 .. MaxCells,
     newly_opened_fields_ptr_is_null : BOOLEAN]

\* What the caller finds after the call: the error code, and in its
\* COpenInfo the result ("none" while unwritten), the entries and their
\* number.
COut(error_code, result, entries, length) ==
    [error_code |-> error_code, result |-> result,
     newly_opened_fields |-> entries, newly_opened_fields_length |-> length]

Untouched(g) ==
    [table |-> Table, state |-> state, stopwatch |-> stopwatch, out |-> g]

\* open_common: every outcome of the call, over the outcomes of the move.
open_common(game_is_null, c_open_info, game_outcomes) ==
    IF game_is_null \/ c_open_info.is_null
    THEN {Untouched(COut("NullPointerAsInput", "none", EmptyMap, 0))}
    ELSE IF c_open_info.newly_opened_fields_length # 0
    THEN {Untouched(COut("InvalidInput", "none", EmptyMap,
                         c_open_info.newly_opened_fields_length))}
    ELSE IF c_open_info.newly_opened_fields_max_length = 0
    THEN {Untouched(COut("InsufficientBuffer", "none", EmptyMap, 0))}
    ELSE IF c_open_info.newly_opened_fields_ptr_is_null
    THEN {Untouched(COut("NullPointerAsInput", "none", EmptyMap, 0))}
    ELSE {[table |-> g.table, state |-> g.state, stopwatch |-> g.stopwatch,
           out |->
            IF IsErr(g.info.result)
                \/ g.info.result = GAME_IS_ALREADY_STOPPED_ERROR
            THEN COut("UnexpectedError", "none", EmptyMap, 0)
            ELSE IF Cardinality(DOMAIN g.info.newly_opened_fields)
                        > c_open_info.newly_opened_fields_max_length
            THEN COut("Ok", "none", EmptyMap, 0)
            ELSE COut("Ok", g.info.result, g.info.newly_opened_fields,
                      Cardinality(DOMAIN g.info.newly_opened_fields))]
          : g \in game_outcomes}

CReturns(op, row, col, game_is_null, c_open_info, o) ==
    /\ SetTable(o.table)
    /\ state' = o.state
    /\ stopwatch' = o.stopwatch
    /\ call' = [op |-> op, row |-> row, col |-> col,
                game_is_null |-> game_is_null, c_open_info |-> c_open_info]
    /\ ret' = o.out
    /\ pre' = Table

minesweeper_game_open ==
    /\ call = NoCall
    /\ \E row \in Rows, col \in Cols, game_is_null \in BOOLEAN,
          c_open_info \in COpenInfos :
        \E o \in open_common(game_is_null, c_open_info,
                             GameExecuteOpen(open_field(Table, row, col))) :
            CReturns("minesweeper_game_open", row, col, game_is_null,
                     c_open_info, o)

minesweeper_game_open_neighbors ==
    /\ call = NoCall
    /\ \E row \in Rows, col \in Cols, game_is_null \in BOOLEAN,
          c_open_info \in COpenInfos :
        \E o \in open_common(game_is_null, c_open_info,
                             GameExecuteOpen(open_neighbors(Table, row, col))) :
            CReturns("minesweeper_game_open_neighbors", row, col,
                     game_is_null, c_open_info, o)

\* The flags are toggled through the Game (minesweeper_game_toggle_flag with
\* valid pointers).
minesweeper_game_toggle_flag ==
    /\ call = NoCall
    /\ \E row \in Rows, col \in Cols :
        LET started == start_game_if_needed(state, stopwatch)
            out == toggle_flag(Table, row, col)
        IN  IF ~started.ok
            THEN CReturns("minesweeper_game_toggle_flag", row, col, FALSE,
                          NullCOpenInfo,
                          Untouched(COut("UnexpectedError", "none",
                                         EmptyMap, 0)))
            ELSE CReturns("minesweeper_game_toggle_flag", row, col, FALSE,
                          NullCOpenInfo,
                          [table |-> out.table, state |-> started.state,
                           stopwatch |-> started.stopwatch,
                           out |-> COut("Ok", out.result, EmptyMap, 0)])

NextC ==
    \/ minesweeper_game_open
    \/ minesweeper_game_open_neighbors
    \/ minesweeper_game_toggle_flag
    \/ DropResult

SpecC == Init /\ [][NextC]_vars

\* ------------------------------------------------------------------------
\* FieldVisiter on its own: new with any coordinate within Margin of a
\* board, then next and extend_with_unvisited_neighbors as the loops of
\* move_mine and execute_open call them.  call holds the arguments of new,
\* ret what new returned: the visiter, and the coordinates next() has
\* returned since.

InitVisiter ==
    \E s \in Shapes :
        \E row \in -Margin .. s[1] - 1 + Margin,
           col \in -Margin .. s[2] - 1 + Margin :
            /\ call = [op |-> "FieldVisiter::new", row |-> row, col |-> col,
                       height |-> s[1], width |-> s[2]]
            /\ ret = NoRet
            /\ height = 0 /\ width = 0 /\ mine_locations = {}
            /\ number_of_opened_fields = 0
            /\ fields = EmptyMap
            /\ pre = [height |-> 0, width |-> 0, mine_locations |-> {},
                      number_of_opened_fields |-> 0, fields |-> EmptyMap]
            /\ state = NotStarted
            /\ stopwatch = NewStopwatch

\* FieldVisiter::new returns Ok(FieldVisiter { .. }).
VisiterNew ==
    /\ call.op = "FieldVisiter::new" /\ ret = NoRet
    /\ ret' = [result |-> "Ok",
               newly_opened_fields |-> EmptyMap,
               visiter |-> FieldVisiter_new(call.height, call.width,
                                            call.row, call.col),
               returned |-> <<>>]
    /\ UNCHANGED <<height, width, mine_locations, number_of_opened_fields,
                   fields, call, pre>>
    /\ UNCHANGED <<state, stopwatch>>

\* next() returns Some(p).
VisiterNext ==
    /\ ret # NoRet
    /\ \E p \in NextChoices(ret.visiter) :
        ret' = [ret EXCEPT !.visiter = VisiterPop(@, p),
                           !.returned = Append(@, p)]
    /\ UNCHANGED <<height, width, mine_locations, number_of_opened_fields,
                   fields, call, pre>>
    /\ UNCHANGED <<state, stopwatch>>

\* extend_with_unvisited_neighbors, called with the seed (open_neighbors)
\* or with the coordinate next() returned last (the two loops).
VisiterExtend ==
    /\ ret # NoRet
    /\ \E p \in {<<call.row, call.col>>}
                \cup {ret.returned[i] : i \in {Len(ret.returned)} \ {0}} :
        ret' = [ret EXCEPT !.visiter =
                    extend_with_unvisited_neighbors(@, p[1], p[2])]
    /\ UNCHANGED <<height, width, mine_locations, number_of_opened_fields,
                   fields, call, pre>>
    /\ UNCHANGED <<state, stopwatch>>

NextVisiter ==
    \/ VisiterNew
    \/ VisiterNext
    \/ VisiterExtend

SpecVisiter == InitVisiter /\ [][NextVisiter]_vars

\* ------------------------------------------------------------------------
\* Vocabulary of the properties, stated without the operators of the model.

AllCoords == {p \in (0 .. height - 1) \X (0 .. width - 1) : TRUE}

Abs(x) == IF x < 0 THEN -x ELSE x

\* q is one of the up to 8 fields around p.
Adjacent(p, q) ==
    /\ p # q
    /\ Abs(p[1] - q[1]) <= 1
    /\ Abs(p[2] - q[2]) <= 1

Around(p) == {q \in AllCoords : Adjacent(p, q)}

Target == <<call.row, call.col>>

IsOpenCall == call.op \in {"open_field", "open_neighbors"}

\* The fields the call turned from Closed to Opened.
OpenedByCall ==
    {p \in AllCoords :
        pre.fields[p].state = "Closed" /\ fields[p].state = "Opened"}

NoFieldOpenedBefore == \A p \in AllCoords : pre.fields[p].state # "Opened"

TableUnchanged == Table = pre

MineSum(t) == Cardinality(t.mine_locations) + t.number_of_opened_fields

\* C1: the first open_field call on a board (no field opened yet, whatever
\* flags were toggled before) never returns Boom.
C1_FirstOpenNeverBooms ==
    (call.op = "open_field" /\ NoFieldOpenedBefore) => ret.result # "Boom"

\* A first open_field on an unflagged mine, on a board that carries a flag:
\* the mine was moved and the call opened the clicked field.
C1_Witness ==
    /\ call.op = "open_field"
    /\ NoFieldOpenedBefore
    /\ pre.fields[Target] = [state |-> "Closed", field_type |-> Mine]
    /\ \E p \in AllCoords : pre.fields[p].state = "Flagged"
    /\ fields[Target].state = "Opened"
    /\ ret.result = "Ok"

C3_CounterCountsOpenedNonMines ==
    number_of_opened_fields =
        Cardinality({p \in AllCoords :
            fields[p].state = "Opened" /\ fields[p].field_type # Mine})

\* A board with an opened mine and two opened non-mine fields, after an
\* open_field call on a field that was open already.
C3_Witness ==
    /\ call.op = "open_field"
    /\ pre.fields[Target].state = "Opened"
    /\ \E p \in AllCoords :
        fields[p] = [state |-> "Opened", field_type |-> Mine]
    /\ number_of_opened_fields = 2

\* The mines around p in the mine set of table t.
MinesAround(t, p) == {q \in Around(p) : q \in t.mine_locations}

\* C4: a field's type is Mine exactly when its coordinate is in
\* mine_locations; any other field is Empty when no mine is around it and
\* Numbered(n), 1 <= n <= 8, when n mines of the current mine set are around
\* it.  First-click relocation keeps this.
C4_TypesMatchMineSet ==
    \A p \in AllCoords :
        LET n == Cardinality(MinesAround(Table, p))
        IN  IF p \in mine_locations THEN fields[p].field_type = Mine
            ELSE IF n = 0 THEN fields[p].field_type = Empty
            ELSE n \in 1 .. 8 /\ fields[p].field_type = <<"Numbered", n>>

\* A first click moved the mine, and the number of a field other than the
\* clicked one and the new mine changed with it.
C4_Witness ==
    /\ call.op = "open_field"
    /\ mine_locations # pre.mine_locations
    /\ \E p \in AllCoords :
        /\ p # Target
        /\ p \notin mine_locations
        /\ fields[p].field_type # pre.fields[p].field_type

\* C5: once a field is Opened it stays Opened with the same FieldType,
\* whatever call follows.
C5_OpenedFieldsAreFrozen ==
    [][\A p \in AllCoords :
         fields[p].state = "Opened" => fields'[p] = fields[p]]_vars

\* A call changed the board while some field was Opened already.
C5_Witness ==
    /\ call.op \in {"open_field", "open_neighbors", "toggle_flag"}
    /\ \E p \in AllCoords : pre.fields[p].state = "Opened"
    /\ \E p \in AllCoords : fields[p] # pre.fields[p]
    /\ \A p \in AllCoords :
        pre.fields[p].state = "Opened" => fields[p] = pre.fields[p]

\* C6: open_field on a Flagged field returns IsFlagged with an empty mapping
\* and leaves the whole table as it was, also on the first open of a flagged
\* mine.
C6_OpenFlaggedIsNoOp ==
    (call.op = "open_field" /\ pre.fields[Target].state = "Flagged") =>
        /\ ret.result = "IsFlagged"
        /\ DOMAIN ret.newly_opened_fields = {}
        /\ TableUnchanged

\* The first open of the game, on a flagged mine.
C6_Witness ==
    /\ call.op = "open_field"
    /\ NoFieldOpenedBefore
    /\ pre.fields[Target] = [state |-> "Flagged", field_type |-> Mine]
    /\ ret.result = "IsFlagged"

\* C7: a Boom result maps every coordinate of the board, height*width
\* entries, each to the FieldType of its field.
C7_BoomRevealsWholeBoard ==
    (IsOpenCall /\ ret.result = "Boom") =>
        /\ DOMAIN ret.newly_opened_fields = AllCoords
        /\ Cardinality(DOMAIN ret.newly_opened_fields) = height * width
        /\ \A p \in AllCoords : ret.newly_opened_fields[p] = fields[p].field_type

\* open_neighbors returned Boom while a non-mine field away from the chord
\* is still Closed: the mapping shows its type too.
C7_Witness ==
    /\ call.op = "open_neighbors"
    /\ ret.result = "Boom"
    /\ \E p \in AllCoords :
        /\ fields[p].state = "Closed"
        /\ fields[p].field_type # Mine
        /\ p \in DOMAIN ret.newly_opened_fields

\* The Flagged fields around p in table t.
FlaggedAround(t, p) == {q \in Around(p) : t.fields[q].state = "Flagged"}

\* The chord condition on the target of the call, in the table as it was:
\* Opened, Numbered(n), and exactly n Flagged fields around it.
ChordSatisfied ==
    /\ pre.fields[Target].state = "Opened"
    /\ pre.fields[Target].field_type[1] = "Numbered"
    /\ pre.fields[Target].field_type[2] = Cardinality(FlaggedAround(pre, Target))

\* C8: open_neighbors returns Ok with an empty mapping and changes nothing
\* unless its target is Opened, Numbered(n) and has exactly n Flagged
\* neighbours.
C8_UnsatisfiedChordIsNoOp ==
    (call.op = "open_neighbors" /\ ~ChordSatisfied) =>
        /\ ret.result = "Ok"
        /\ DOMAIN ret.newly_opened_fields = {}
        /\ TableUnchanged

\* open_neighbors on an Opened Numbered field that has more flags around it
\* than its number, and a Closed field around it that stayed Closed.
C8_Witness ==
    /\ call.op = "open_neighbors"
    /\ pre.fields[Target].state = "Opened"
    /\ pre.fields[Target].field_type[1] = "Numbered"
    /\ Cardinality(FlaggedAround(pre, Target)) > pre.fields[Target].field_type[2]
    /\ \E q \in Around(Target) : fields[q].state = "Closed"
    /\ ret.result = "Ok"

\* The Closed fields a flood fill of the table `pre` opens from the Closed
\* fields of S: S, and over and over the Closed fields around every Empty one.
RECURSIVE FloodClosure(_)
FloodClosure(S) ==
    LET grown ==
            S \cup {q \in AllCoords :
                        /\ pre.fields[q].state = "Closed"
                        /\ \E p \in S : /\ pre.fields[p].field_type = Empty
                                        /\ Adjacent(p, q)}
    IN  IF grown = S THEN S ELSE FloodClosure(grown)

ClosedAroundTarget == {q \in Around(Target) : pre.fields[q].state = "Closed"}

\* A satisfied chord whose flags sit exactly on the mines around the target.
CorrectChord ==
    /\ call.op = "open_neighbors"
    /\ ChordSatisfied
    /\ FlaggedAround(pre, Target) = MinesAround(pre, Target)

\* What C9 says of the fields: no Boom, every Closed unflagged neighbour is
\* Opened, and the call opened the flood fill from those neighbours.
CorrectChordOpens ==
    /\ ret.result # "Boom"
    /\ \A q \in ClosedAroundTarget : fields[q].state = "Opened"
    /\ OpenedByCall = FloodClosure(ClosedAroundTarget)
    /\ \A p \in AllCoords \ OpenedByCall : fields[p] = pre.fields[p]

\* C9 as stated: after a correct chord the mapping holds exactly the fields
\* opened by the call.
C9_MappingIsExactlyTheOpened ==
    CorrectChord =>
        /\ CorrectChordOpens
        /\ DOMAIN ret.newly_opened_fields = OpenedByCall

\* C9, amended: after a correct chord there is no Boom, every Closed unflagged
\* neighbour is Opened (cascading through Empty fields), and the mapping
\* holds the fields opened by the call, each with its type: exactly those
\* when the result is Ok, those and every mine coordinate, mapped to Mine,
\* when the result is WINNER.
C9_CorrectChordOpensNeighbours ==
    CorrectChord =>
        /\ CorrectChordOpens
        /\ ret.result \in {"Ok", "WINNER"}
        /\ DOMAIN ret.newly_opened_fields =
            IF ret.result = "WINNER" THEN OpenedByCall \cup mine_locations
            ELSE OpenedByCall
        /\ \A p \in OpenedByCall :
            ret.newly_opened_fields[p] = fields[p].field_type
        /\ ret.result = "WINNER" =>
            \A p \in mine_locations : ret.newly_opened_fields[p] = Mine

\* A correct chord whose fill went through an Empty field around the target
\* to a field that is not around it.
C9_Witness ==
    /\ CorrectChord
    /\ ret.result \in {"Ok", "WINNER"}
    /\ \E p \in OpenedByCall : p \notin Around(Target)
    /\ \E q \in ClosedAroundTarget : pre.fields[q].field_type = Empty

\* C10: while no mine has been opened, open_neighbors on an Opened
\* Numbered(n) field with exactly n Flagged neighbours, one of them not a
\* mine, returns Boom with a mapping of all height*width fields.
C10_WrongFlagChordBooms ==
    ( /\ call.op = "open_neighbors"
      /\ ChordSatisfied
      /\ \A p \in AllCoords :
            ~(pre.fields[p].state = "Opened" /\ pre.fields[p].field_type = Mine)
      /\ \E q \in FlaggedAround(pre, Target) : q \notin pre.mine_locations )
    =>  /\ ret.result = "Boom"
        /\ DOMAIN ret.newly_opened_fields = AllCoords
        /\ Cardinality(DOMAIN ret.newly_opened_fields) = height * width

\* A chord on a Numbered(2) field with two flags around it, one on a mine and
\* one on a non-mine field: the unflagged mine was opened.
C10_Witness ==
    /\ call.op = "open_neighbors"
    /\ ChordSatisfied
    /\ pre.fields[Target].field_type = <<"Numbered", 2>>
    /\ \E q \in FlaggedAround(pre, Target) : q \notin pre.mine_locations
    /\ \E q \in FlaggedAround(pre, Target) : q \in pre.mine_locations
    /\ \E q \in Around(Target) :
        /\ pre.fields[q] = [state |-> "Closed", field_type |-> Mine]
        /\ fields[q].state = "Opened"
    /\ ret.result = "Boom"

\* C11: an Ok result of open_field or open_neighbors maps exactly the fields
\* the call turned from Closed to Opened, each to its FieldType, and none of
\* them is a mine.
C11_OkMappingIsTheOpenedFields ==
    (IsOpenCall /\ ret.result = "Ok") =>
        /\ DOMAIN ret.newly_opened_fields = OpenedByCall
        /\ \A p \in OpenedByCall :
            /\ ret.newly_opened_fields[p] = fields[p].field_type
            /\ ret.newly_opened_fields[p] # Mine
            /\ p \notin mine_locations

\* An open_field call returned Ok after a cascade: it opened an Empty field
\* and a Numbered one while a mine stayed Closed.
C11_Witness ==
    /\ call.op = "open_field"
    /\ ret.result = "Ok"
    /\ Cardinality(OpenedByCall) >= 2
    /\ \E p \in OpenedByCall : fields[p].field_type = Empty
    /\ \E p \in OpenedByCall : fields[p].field_type[1] = "Numbered"
    /\ \E p \in mine_locations : fields[p].state = "Closed"

\* C12: a WINNER result maps every coordinate of mine_locations to Mine, and
\* with them the fields the call opened.
C12_WinnerMappingHoldsTheMines ==
    (IsOpenCall /\ ret.result = "WINNER") =>
        /\ \A p \in mine_locations :
            /\ p \in DOMAIN ret.newly_opened_fields
            /\ ret.newly_opened_fields[p] = Mine
        /\ \A p \in OpenedByCall :
            /\ p \in DOMAIN ret.newly_opened_fields
            /\ ret.newly_opened_fields[p] = fields[p].field_type
        /\ DOMAIN ret.newly_opened_fields = OpenedByCall \cup mine_locations

\* A call won the game by opening two fields on a board with two mines.
C12_Witness ==
    /\ IsOpenCall
    /\ ret.result = "WINNER"
    /\ Cardinality(OpenedByCall) = 2
    /\ Cardinality(mine_locations) = 2

\* The call was open_field on a field that was Opened already.
ReopenCall == call.op = "open_field" /\ pre.fields[Target].state = "Opened"

MineOpenedByCall == \E p \in OpenedByCall : fields[p].field_type = Mine

\* C14: open_field returns Boom exactly when its target is a Closed mine and
\* some field has been opened before; a fill started from a non-mine field
\* opens no mine.
C14_BoomOnlyOnClickedMine ==
    call.op = "open_field" =>
        /\ ret.result = "Boom" <=>
            /\ pre.fields[Target] = [state |-> "Closed", field_type |-> Mine]
            /\ ~NoFieldOpenedBefore
        /\ pre.fields[Target].field_type # Mine => ~MineOpenedByCall

\* An Empty field next to nothing but numbers was opened after another
\* field: the cascade stopped at the numbers and no mine was opened.
C14_Witness ==
    /\ call.op = "open_field"
    /\ ~NoFieldOpenedBefore
    /\ pre.fields[Target] = [state |-> "Closed", field_type |-> Empty]
    /\ Cardinality(OpenedByCall) >= 2
    /\ ~MineOpenedByCall
    /\ ret.result # "Boom"

C19_ToggleFlagTogglesUnopened ==
    call.op = "toggle_flag" =>
        LET before == pre.fields[Target]
            after == fields[Target]
        IN  /\ Table = [pre EXCEPT !.fields[Target].state = after.state]
            /\ before.state = "Closed" =>
                    after.state = "Flagged" /\ ret.result = "Flagged"
            /\ before.state = "Flagged" =>
                    after.state = "Closed" /\ ret.result = "FlagRemoved"
            /\ before.state = "Opened" =>
                    after.state = "Opened" /\ ret.result = "AlreadyOpened"
            /\ before.state # "Opened" =>
                    /\ toggle_flag(Table, call.row, call.col).table = pre
                    /\ toggle_flag(Table, call.row, call.col).result
                            = IF before.state = "Closed"
                              THEN "FlagRemoved" ELSE "Flagged"

\* The flag was taken off a mine next to an Opened field.
C19_Witness ==
    /\ call.op = "toggle_flag"
    /\ pre.fields[Target] = [state |-> "Flagged", field_type |-> Mine]
    /\ \E q \in Around(Target) : fields[q].state = "Opened"
    /\ ret.result = "FlagRemoved"
    /\ fields[Target].state = "Closed"

\* The call was made with a coordinate off the board.
OffBoard ==
    /\ call # NoCall
    /\ \/ call.row < 0 \/ call.row >= height
       \/ call.col < 0 \/ call.col >= width

\* C17: open_field, open_neighbors, toggle_flag and get_field_info return
\* InvalidIndex for every coordinate off the board and leave the board as
\* it was.
C17_OffBoardIsInvalidIndex ==
    OffBoard =>
        /\ call.op \in {"open_field", "open_neighbors", "toggle_flag",
                        "get_field_info"}
        /\ ret.result = "InvalidIndex"
        /\ TableUnchanged

\* open_neighbors with the row one past the last, on a board with an Opened
\* and a Flagged field.
C17_Witness ==
    /\ call.op = "open_neighbors"
    /\ call.row = height /\ call.col \in 0 .. width - 1
    /\ \E p \in AllCoords : fields[p].state = "Opened"
    /\ \E p \in AllCoords : fields[p].state = "Flagged"
    /\ ret.result = "InvalidIndex"

\* C18: get_field_info on a field of the board returns the field's state,
\* with the field's type when it is Opened and with Empty when it is Closed
\* or Flagged, whatever the type is.
C18_TypeShownOnlyWhenOpened ==
    (call.op = "get_field_info" /\ ~OffBoard) =>
        /\ ret.result = "Ok"
        /\ ret.field_info.state = fields[Target].state
        /\ ret.field_info.field_type =
                IF fields[Target].state = "Opened"
                THEN fields[Target].field_type
                ELSE Empty
        /\ TableUnchanged

\* get_field_info on a Flagged mine, with a numbered field Opened.
C18_Witness ==
    /\ call.op = "get_field_info"
    /\ ~OffBoard
    /\ fields[Target] = [state |-> "Flagged", field_type |-> Mine]
    /\ \E p \in AllCoords :
        fields[p].state = "Opened" /\ fields[p].field_type[1] = "Numbered"
    /\ ret.result = "Ok"
    /\ ret.field_info = [state |-> "Flagged", field_type |-> Empty]

\* The loop of generate_mine_locations is running: new has not returned and
\* the set is smaller than number_of_mines.
NewLoopRuns ==
    /\ call.op = "new"
    /\ ret = NoRet
    /\ Cardinality(mine_locations) < call.number_of_mines

\* C20: BasicTable::new terminates for every count: as long as the loop of
\* generate_mine_locations runs, some draw adds a coordinate to the set, so
\* the loop can reach its exit.
C20_NewLoopCanReachItsExit ==
    NewLoopRuns =>
        \E row \in RandomAbsMod(height), col \in RandomAbsMod(width) :
            <<row, col>> \notin mine_locations

\* The product of the dimensions passed to with_custom_mines is above
\* SizeType::MAX.
ProductOverflows ==
    /\ call.op = "with_custom_mines"
    /\ DigitsLess(SizeTypeMAX, DigitsMul(call.height, call.width))

\* C21: with_custom_mines fails with the too-many-fields error, and builds
\* no table, whenever height*width overflows SizeType; with a product that
\* fits it never fails with that error.
C21_OverflowIsTooMuchFields ==
    (call.op = "with_custom_mines" /\ ret # NoRet) =>
        /\ ProductOverflows <=> ret.result = "TooMuchFields"
        /\ ProductOverflows => Table = pre

\* SizeType::MAX / 2 + 1 times 2, as in test create_game_with_invalid_sizes.
C21_Witness ==
    /\ call.op = "with_custom_mines"
    /\ call.height = Pow2Digits(SizeTypeBits - 2)
    /\ call.width = NatDigits(2)
    /\ ret.result = "TooMuchFields"
    /\ fields = EmptyMap

SomeFieldOpened == \E p \in AllCoords : fields[p].state = "Opened"

\* C22: the mine set changes only in an open_field call made on a mine
\* while number_of_opened_fields is 0 and no field is Opened, and that call
\* leaves a field Opened; an Opened field stays, and with a field Opened
\* the mine set never changes: it changes at most once.
C22_MinesMoveOnlyOnFirstOpen ==
    [][ /\ mine_locations' # mine_locations =>
            /\ call'.op = "open_field"
            /\ <<call'.row, call'.col>> \in mine_locations
            /\ number_of_opened_fields = 0
            /\ ~SomeFieldOpened
            /\ SomeFieldOpened'
        /\ SomeFieldOpened => SomeFieldOpened' /\ mine_locations' = mine_locations
      ]_vars

\* The first open moved a mine; flags had been set before.
C22_Witness ==
    /\ call.op = "open_field"
    /\ mine_locations # pre.mine_locations
    /\ Cardinality(mine_locations) = Cardinality(pre.mine_locations)
    /\ \E p \in AllCoords : pre.fields[p].state = "Flagged"
    /\ ret.result = "Ok"

\* C23: open_field is a function of the table and the coordinate: on every
\* table, for every coordinate, there is one OpenInfo and one resulting
\* table, the mine set left by a relocation included.
C23_OpenFieldIsDeterministic ==
    call = NoCall =>
        \A row \in 0 .. height - 1, col \in 0 .. width - 1 :
            \A o1, o2 \in open_field(Table, row, col) : o1 = o2

\* A loop over a FieldVisiter is running or has just ended.
InTraversal == call # NoCall /\ call.op \in {"open_field", "open_neighbors"}

ReturnedSet == {call.returned[i] : i \in 1 .. Len(call.returned)}

\* In a loop over a FieldVisiter next() has returned coordinates of the
\* board, each at most once, and none of them is in the work list again; so
\* a loop makes at most height*width passes.
ReturnedOnce ==
    InTraversal =>
        /\ \A i, j \in 1 .. Len(call.returned) :
                i # j => call.returned[i] # call.returned[j]
        /\ ReturnedSet \subseteq AllCoords
        /\ ReturnedSet \cap PendingFields(call.visiter) = {}
        /\ Len(call.returned) <= height * width

\* C24: every loop over a FieldVisiter (the search of move_mine, the fill of
\* open_field and of open_neighbors) returns each coordinate at most once
\* and never puts a returned coordinate back, and every call that has
\* entered such a loop returns.
C24_TraversalsTerminate ==
    /\ []ReturnedOnce
    /\ (InTraversal /\ ret = NoRet) ~> (ret # NoRet)

\* A fill that has gone over three fields, extending its work list from
\* two of them, and returned.
C24_Witness ==
    /\ InTraversal
    /\ call.phase = "done"
    /\ call.op = "open_field"
    /\ Len(call.returned) = 3
    /\ Len(call.visiter.fields_to_visit) = 0
    /\ ret.result = "WINNER"

\* ------------------------------------------------------------------------
\* C25.  In a Game, a call that returns WINNER or Boom leaves the game
\* Stopped, and in a Stopped game every open, open_neighbors and toggle_flag
\* returns the "Game is already stopped" error and leaves the table, the
\* state and the stopwatch as they were: the board never changes after the
\* game has ended.
C25_StoppedGameRefusesMoves ==
    [][ /\ (call = NoCall /\ call' # NoCall /\ ret'.result \in {"WINNER", "Boom"})
            => state' = Stopped(ret'.result = "WINNER")
        /\ (state.tag = "Stopped" /\ call = NoCall /\ call' # NoCall)
            => /\ ret'.result = GAME_IS_ALREADY_STOPPED_ERROR
               /\ call'.op \in {"open", "open_neighbors", "toggle_flag"}
        /\ state.tag = "Stopped"
            => /\ Table' = Table
               /\ state' = state
               /\ stopwatch' = stopwatch
      ]_vars

\* A toggle_flag of a field of the board was refused after a lost game that
\* still has closed fields.
C25_Witness ==
    /\ state = Stopped(FALSE)
    /\ call.op = "toggle_flag"
    /\ validate_indices(Table, call.row, call.col)
    /\ ret.result = GAME_IS_ALREADY_STOPPED_ERROR
    /\ \E p \in DOMAIN fields : fields[p].state = "Closed"

\* C26.  The Game leaves NotStarted (and starts its stopwatch) only on a move
\* that succeeds, never on one the table answers with an error such as
\* InvalidIndex; and it stops the stopwatch once, on the call that returns
\* WINNER or Boom.
C26_ClockStartsOnSuccessfulMove ==
    [][ /\ (state = NotStarted /\ state' # NotStarted)
            => ~IsErr(ret'.result)
        /\ stopwatch'.start # stopwatch.start
            => ~IsErr(ret'.result)
        /\ stopwatch'.stop # stopwatch.stop
            => /\ stopwatch.stop = 0 /\ stopwatch'.stop = 1
               /\ ret'.result \in {"WINNER", "Boom"}
      ]_vars

\* ------------------------------------------------------------------------
\* First-click relocation, seen after the call: the call was an open_field of
\* a mine while no field had been opened.
Relocating ==
    /\ call.op = "open_field"
    /\ Target \in pre.mine_locations
    /\ pre.fields[Target].state = "Closed"
    /\ pre.number_of_opened_fields = 0

Chebyshev(p, q) ==
    IF Abs(p[1] - q[1]) >= Abs(p[2] - q[2])
    THEN Abs(p[1] - q[1]) ELSE Abs(p[2] - q[2])

\* C27.  The place a relocated mine is moved to is a nearest non-mine field:
\* no field without a mine is closer (in Chebyshev distance) to the clicked
\* coordinate than the new place.
C27_RelocationPicksNearest ==
    Relocating =>
        \A np \in mine_locations \ pre.mine_locations :
            \A q \in AllCoords \ pre.mine_locations :
                Chebyshev(Target, np) <= Chebyshev(Target, q)

\* C28.  First-click relocation takes the clicked coordinate out of the mine
\* set and puts in one coordinate of the board that held no mine: the number
\* of mines is unchanged, the clicked field is no mine any more, and the call
\* never ends in the panic of a new_place left at a (0, 0) that holds a mine.
C28_RelocationKeepsMineCount ==
    Relocating =>
        /\ ret.result \in {"Ok", "WINNER"}
        /\ \E np \in AllCoords \ pre.mine_locations :
            /\ mine_locations = (pre.mine_locations \ {Target}) \cup {np}
            /\ fields[np].field_type = Mine
        /\ Cardinality(mine_locations) = Cardinality(pre.mine_locations)
        /\ Target \notin mine_locations
        /\ fields[Target].field_type # Mine
        /\ \A p \in AllCoords : fields[p].field_type = Mine <=> p \in mine_locations

\* A relocation on a board whose (0, 0) holds a mine that stays where it is.
C28_Witness ==
    /\ Relocating
    /\ Target # <<0, 0>>
    /\ <<0, 0>> \in pre.mine_locations
    /\ <<0, 0>> \in mine_locations
    /\ Cardinality(mine_locations) = 2

\* C29.  A mine opened by a flood fill does not end the fill.  An
\* open_neighbors call returns Boom exactly when its chord condition holds and
\* a Closed neighbour of the target is a mine, in whatever order the fields
\* are reached; after such a call every neighbour that was Closed (and so not
\* Flagged) is Opened, the call has opened the whole fill from those
\* neighbours, and number_of_opened_fields has grown by the non-mine fields
\* among them.
C29_BoomDoesNotStopTheFill ==
    call.op = "open_neighbors" =>
        /\ ret.result = "Boom" <=>
            /\ ChordSatisfied
            /\ \E q \in ClosedAroundTarget : q \in pre.mine_locations
        /\ ret.result = "Boom" =>
            /\ \A q \in ClosedAroundTarget : fields[q].state = "Opened"
            /\ OpenedByCall = FloodClosure(ClosedAroundTarget)
            /\ number_of_opened_fields =
                pre.number_of_opened_fields
                + Cardinality({p \in OpenedByCall : p \notin mine_locations})
            /\ \A p \in AllCoords \ OpenedByCall : fields[p] = pre.fields[p]

\* A chord that opened a mine and, beside it, a field without a mine.
C29_Witness ==
    /\ call.op = "open_neighbors"
    /\ ret.result = "Boom"
    /\ \E q \in ClosedAroundTarget : q \in mine_locations
    /\ \E q \in ClosedAroundTarget :
        q \notin mine_locations /\ fields[q].state = "Opened"
    /\ number_of_opened_fields = pre.number_of_opened_fields + 1

\* The fields an open call starts its fill from, and the fill from them: it
\* goes on from a field the call opened only when that field is Empty (types
\* as they are after the call, that is after a relocation), and only to
\* fields that were Closed.
FillStart ==
    IF call.op = "open_field"
    THEN {p \in {Target} : pre.fields[p].state = "Closed"}
    ELSE IF call.op = "open_neighbors" /\ ChordSatisfied
    THEN ClosedAroundTarget
    ELSE {}

RECURSIVE FilledFrom(_)
FilledFrom(S) ==
    LET grown ==
            S \cup {q \in AllCoords :
                        /\ pre.fields[q].state = "Closed"
                        /\ \E p \in S : /\ fields[p].field_type = Empty
                                        /\ Adjacent(p, q)}
    IN  IF grown = S THEN S ELSE FilledFrom(grown)

FlaggedBefore == {p \in AllCoords : pre.fields[p].state = "Flagged"}

\* The coordinates the visiter of the call handed out: where the fill
\* started, and the fields around every Empty field it opened.
ReachedByFill ==
    IF call.op = "open_neighbors" /\ ChordSatisfied
    THEN {Target} \cup Around(Target)
         \cup UNION {Around(q) : q \in {o \in OpenedByCall : fields[o].field_type = Empty}}
    ELSE IF call.op = "open_field" /\ pre.fields[Target].state # "Flagged"
    THEN {Target}
         \cup UNION {Around(q) : q \in {o \in OpenedByCall : fields[o].field_type = Empty}}
    ELSE {}

\* What C30 says of every field that was Flagged, but for the mapping: it is
\* still Flagged, the counter grew by the opened non-mine fields only, and
\* the fill did not pass through a Flagged field.
FlaggedStayOut ==
    /\ \A p \in FlaggedBefore : fields[p].state = "Flagged"
    /\ number_of_opened_fields =
        pre.number_of_opened_fields
        + Cardinality({p \in OpenedByCall : p \notin mine_locations})
    /\ OpenedByCall = FilledFrom(FillStart)

\* C30 as stated: an open_field or open_neighbors call leaves every Flagged
\* field Flagged, does not count it, does not continue the cascade through
\* it, and no Flagged field the fill reached is in the mapping of an Ok or
\* WINNER result.
C30_FlaggedNeverInMapping ==
    IsOpenCall =>
        /\ FlaggedStayOut
        /\ ret.result \in {"Ok", "WINNER"} =>
            \A p \in FlaggedBefore \cap ReachedByFill :
                p \notin DOMAIN ret.newly_opened_fields

\* C30, amended: the same, except that the mapping of a WINNER result holds
\* the Flagged fields that are mines (it holds every mine); an Ok mapping
\* holds no Flagged field.  The Flagged field keeps its type as well unless
\* the call relocated a mine.
C30_FlaggedUntouched ==
    IsOpenCall =>
        /\ FlaggedStayOut
        /\ ret.result \in {"Ok", "WINNER"} =>
            \A p \in FlaggedBefore :
                p \in DOMAIN ret.newly_opened_fields
                    <=> (ret.result = "WINNER" /\ p \in mine_locations)
        /\ mine_locations = pre.mine_locations =>
            \A p \in FlaggedBefore : fields[p] = pre.fields[p]

\* An open_field of an Empty field stopped at a Flagged Empty field: the
\* Closed field behind the flag was not opened.
C30_Witness ==
    /\ call.op = "open_field"
    /\ ret.result = "Ok"
    /\ fields[Target] = [state |-> "Opened", field_type |-> Empty]
    /\ \E p \in Around(Target) :
        /\ pre.fields[p] = [state |-> "Flagged", field_type |-> Empty]
        /\ fields[p] = pre.fields[p]
        /\ \E q \in Around(p) :
            /\ pre.fields[q].state = "Closed"
            /\ fields[q].state = "Closed"
            /\ q \notin mine_locations

\* ------------------------------------------------------------------------
\* The call being made relocates a mine: an open_field of an unflagged mine
\* while number_of_opened_fields is 0.
RelocatingCall(row, col) ==
    /\ number_of_opened_fields = 0
    /\ fields[<<row, col>>].state # "Flagged"
    /\ fields[<<row, col>>].field_type = Mine

\* C31.  A call of open_field that relocates no mine, and any call of
\* open_neighbors, has one outcome: the table after the call, the result
\* kind and the mapping are the same for every order in which the
\* FieldVisiter can hand out its pending coordinates.
C31_FillIsOrderIndependent ==
    [][ /\ (call = NoCall /\ call'.op = "open_field"
                /\ ~RelocatingCall(call'.row, call'.col))
            => \A out \in open_field(Table, call'.row, call'.col) :
                    /\ out.table = Table'
                    /\ out.info = ret'
        /\ (call = NoCall /\ call'.op = "open_neighbors")
            => \A out \in open_neighbors(Table, call'.row, call'.col) :
                    /\ out.table = Table'
                    /\ out.info = ret'
      ]_vars

\* A chord that opened two fields, one of them a mine, beside a Flagged one:
\* the visiter could hand out the three in any order.
C31_Witness ==
    /\ call.op = "open_neighbors"
    /\ ChordSatisfied
    /\ ret.result = "Boom"
    /\ Cardinality(OpenedByCall) = 2
    /\ Cardinality(Around(Target)) = 3

\* A mine coordinate passed to with_custom_mines lies off the board.
MineOffBoard ==
    \E m \in call.mine_locations :
        m \notin Coords(DigitsNat(call.height), DigitsNat(call.width))

\* C32.  with_custom_mines returns InvalidMineLocations and builds no table
\* whenever its dimensions and mine count pass check_sizes and some mine
\* coordinate is off the board.
C32_OffBoardMineIsRejected ==
    ( /\ call.op = "with_custom_mines" /\ ret # NoRet
      /\ SmallBoard(call.height, call.width)
      /\ check_sizes_SizeType(call.height, call.width,
                              Cardinality(call.mine_locations)) = "Ok"
      /\ MineOffBoard )
    =>  /\ ret.result = "InvalidMineLocations"
        /\ Table = pre

\* ------------------------------------------------------------------------
\* The field as it was before the call on a single FieldInner.
FieldBefore == pre.fields[<<0, 0>>]

IsUpdateCall ==
    call.op \in {"update_type_to_mine", "update_type_to_empty",
                 "update_type_with_value"}

\* C33.  update_type_to_mine, update_type_to_empty and update_type_with_value
\* return an error and leave the field as it was when the field is Opened;
\* on a Closed or Flagged field they succeed, set the type and keep the
\* state, update_type_with_value for the values 1 .. 8 only (with any other
\* value it returns an error and leaves the field as it was).
C33_UpdateTypeRefusesOpened ==
    IsUpdateCall =>
        IF FieldBefore.state = "Opened"
            \/ (call.op = "update_type_with_value" /\ call.value \notin 1 .. 8)
        THEN ret.result = "Err" /\ TheField = FieldBefore
        ELSE /\ ret.result = "Ok"
             /\ TheField.state = FieldBefore.state
             /\ TheField.field_type =
                    CASE call.op = "update_type_to_mine" -> Mine
                      [] call.op = "update_type_to_empty" -> Empty
                      [] OTHER -> Numbered(call.value)

\* update_type_to_mine was refused on an Opened field that is no mine.
C33_Witness ==
    /\ call.op = "update_type_to_mine"
    /\ FieldBefore.state = "Opened"
    /\ FieldBefore.field_type = Numbered(5)
    /\ ret.result = "Err"

\* ------------------------------------------------------------------------
\* The mines of the call that lie on the board, one step (in any of the 8
\* directions) from the coordinate of the call.
MinesNextToCall ==
    {m \in call.mine_locations :
        /\ m[1] \in 0 .. call.height - 1
        /\ m[2] \in 0 .. call.width - 1
        /\ m # <<call.row, call.col>>
        /\ Abs(m[1] - call.row) <= 1
        /\ Abs(m[2] - call.col) <= 1}

\* C34.  get_field_value fails when its coordinate is in the mine set;
\* otherwise it returns the number of mines on the board at the 8 offsets
\* around the coordinate: a mine at the far edge or off the board is not
\* counted, nor is the coordinate itself.
C34_FieldValueCountsNeighbourMines ==
    (call.op = "get_field_value" /\ ret # NoRet) =>
        IF <<call.row, call.col>> \in call.mine_locations
        THEN ret.result = "Err"
        ELSE /\ ret.result = "Ok"
             /\ ret.value = Cardinality(MinesNextToCall)

\* A count of 1 at the edge of a row of more than two fields whose other end
\* holds a mine as well.
C34_Witness ==
    /\ call.op = "get_field_value"
    /\ ret.result = "Ok"
    /\ ret.value = 1
    /\ call.height = 1 /\ call.width > 2
    /\ <<call.row, call.col>> = <<0, 0>>
    /\ <<0, call.width - 1>> \in call.mine_locations

\* ------------------------------------------------------------------------
COpenCall ==
    call.op \in {"minesweeper_game_open", "minesweeper_game_open_neighbors"}

\* The arguments of the call passed the checks made before the move, and
\* the move opened more fields (each of them an entry of its mapping) than
\* the caller's buffer has room for.
BufferTooSmall ==
    /\ COpenCall
    /\ ~call.game_is_null
    /\ ~call.c_open_info.is_null
    /\ call.c_open_info.newly_opened_fields_length = 0
    /\ ~call.c_open_info.newly_opened_fields_ptr_is_null
    /\ Cardinality(OpenedByCall)
            > call.c_open_info.newly_opened_fields_max_length

\* C35.  minesweeper_game_open and minesweeper_game_open_neighbors report
\* InsufficientBuffer, and not Ok, when the mapping of the move has more
\* entries than the caller's buffer has room for.
C35_SmallBufferIsReported ==
    BufferTooSmall => ret.error_code = "InsufficientBuffer"

\* ------------------------------------------------------------------------
\* C36.  While number_of_opened_fields is 0 no field is Opened; so a
\* first-click relocation finds no Opened field, none of its update_type_*
\* calls fails, and no call ends in the panic of their unwrap().
C36_NothingOpenedAtCountZero ==
    /\ number_of_opened_fields = 0 =>
        \A p \in AllCoords : fields[p].state # "Opened"
    /\ ret.result # "Panic"
    /\ Relocating =>
        /\ \A p \in AllCoords : pre.fields[p].state # "Opened"
        /\ \A p \in AllCoords :
            fields[p].field_type # pre.fields[p].field_type
                => update_type_to_empty(pre.fields[p]).ok

\* A relocation on a row of four fields, one of them Flagged, that retyped
\* all four.
C36_Witness ==
    /\ Relocating
    /\ height = 1 /\ width = 4
    /\ \E p \in AllCoords : pre.fields[p].state = "Flagged"
    /\ \A p \in AllCoords : fields[p].field_type # pre.fields[p].field_type

\* The fields whose type a relocation may change: the vacated field, the
\* new place of the mine, and the fields around those two.
RetypedByRelocation ==
    UNION {{p} \cup Around(p) :
            p \in {Target} \cup (mine_locations \ pre.mine_locations)}

\* C37.  The step of move_mine that moves the mine changes the FieldState of
\* no field, so every Flagged field stays Flagged, also the one that becomes
\* the new place of the mine; and it changes the FieldType only of the
\* vacated field, of the new place and of the fields around those two.
C37_RelocationFrame ==
    [][mine_locations' # mine_locations =>
        /\ \A p \in AllCoords : fields'[p].state = fields[p].state
        /\ \A p \in AllCoords :
            fields'[p].field_type # fields[p].field_type =>
                \E q \in {<<call.row, call.col>>}
                         \cup (mine_locations' \ mine_locations) :
                    p = q \/ p \in get_neighbor_fields(height, width, q[1], q[2])
      ]_vars

\* move_mine has just moved the mine onto a Flagged field, which is still
\* Flagged, and a field away from both places kept its type.
C37_Witness ==
    /\ call # NoCall /\ call.op = "open_field" /\ call.phase = "open"
    /\ number_of_opened_fields = 0
    /\ \E np \in mine_locations \ pre.mine_locations :
        /\ pre.fields[np].state = "Flagged"
        /\ fields[np] = [state |-> "Flagged", field_type |-> Mine]
    /\ AllCoords \ RetypedByRelocation # {}

\* The loop of execute_open is about to make its first pass for an
\* open_neighbors call.
ChordFillStarts ==
    /\ call # NoCall /\ call.op = "open_neighbors" /\ call.phase = "open"
    /\ call.returned = <<>>

\* An open_neighbors call has reached the loop of execute_open.
ChordFillRuns ==
    /\ call # NoCall /\ call.op = "open_neighbors"
    /\ call.phase = "open" \/ call.returned # <<>>

\* C38, as stated.  When the flood fill of open_neighbors starts, the
\* chorded field is not in the to-visit set: the set is exactly the field's
\* neighbours.
C38_ChordedCellNotToVisit ==
    ChordFillStarts =>
        /\ Target \notin PendingFields(call.visiter)
        /\ PendingFields(call.visiter) = Around(Target)

\* C38, amended.  When the flood fill of open_neighbors starts, the to-visit
\* set holds the chorded field, as its oldest entry, and after it the
\* field's neighbours.  The chorded field stays the oldest entry while the
\* fill runs, so next() hands it out last; it is Opened already, so it is
\* not counted and is in the mapping only through the full reveal of a
\* Boom.
C38_ChordedCellIsVisitedLast ==
    ChordFillRuns =>
        /\ ChordFillStarts =>
            call.visiter.fields_to_visit = << {Target}, Around(Target) >>
        /\ call.phase = "open" /\ call.visiter.fields_to_visit # <<>> =>
            call.visiter.fields_to_visit[1] = {Target}
        /\ Target \notin DOMAIN call.newly_opened_fields
        /\ call.phase = "done" =>
            /\ call.returned[Len(call.returned)] = Target
            /\ number_of_opened_fields - pre.number_of_opened_fields
                = Cardinality({p \in AllCoords \ {Target} :
                    /\ fields[p].state = "Opened"
                    /\ pre.fields[p].state # "Opened"
                    /\ ~is_mine(fields[p].field_type)})
            /\ ret.result # "Boom" => Target \notin DOMAIN ret.newly_opened_fields

\* The fill of a chord has handed out the chorded field as the last of
\* three coordinates and has returned.
C38_Witness ==
    /\ call # NoCall /\ call.op = "open_neighbors" /\ call.phase = "done"
    /\ Len(call.returned) = 3
    /\ call.returned[3] = Target
    /\ ret.result = "Ok"

\* The coordinate FieldVisiter::new was called with is outside the board it
\* was called with.
SeedOffBoard ==
    \/ call.row < 0 \/ call.row >= call.height
    \/ call.col < 0 \/ call.col >= call.width

\* C39.  FieldVisiter::new fails when the initial coordinate is outside the
\* board: it returns an error and builds no visiter.
C39_NewFailsOffBoard ==
    (call.op = "FieldVisiter::new" /\ ret # NoRet /\ SeedOffBoard) =>
        ret.result # "Ok"

====
